---- MODULE Spec2Model ----
(***************************************************************************)
(* Purchase analytics of kroger-mcp: the purchase-event ledger, the        *)
(* per-product statistics recomputed from it, product categories with      *)
(* manual override, the pantry depletion model, and the one-time JSON      *)
(* backfill that ensure_initialized runs on first use.                     *)
(*                                                                         *)
(* Conventions                                                             *)
(*  - A calendar date is a day number (day 0 = 2024-01-01); a timestamp is *)
(*    a tick count with TicksPerDay ticks to the day, so timestamp[:10]    *)
(*    (the date part of an ISO timestamp) is tick \div TicksPerDay.        *)
(*  - A real number is an exact rational <<numerator, denominator>> in     *)
(*    lowest terms; Python's None is the empty tuple <<>>.                 *)
(*  - A value that the code obtains with a square root (std_dev_days,      *)
(*    seasonality_score) is carried by its square, which is rational.      *)
(*  - A table is a function from the keys of its rows to the rows.         *)
(***************************************************************************)
EXTENDS Integers, Sequences, FiniteSets, TLC

\* ------------------------------------------------------------------ bounds
TicksPerDay == 1
StartDay == 4
MaxTicks == 2
MaxEvents == 9
MaxQty == 1
MaxCalls == 3
Horizon == 4

StartTime == StartDay * TicksPerDay
MaxTime == StartTime + MaxTicks

\* ------------------------------------------------------------- input sets
ProductIds == {"p1", "p2"}
LevelInputs == {-5, 5, 6, 120}
ThresholdInputs == {20}
CategoryInputs == {"treat", "bogus"}
RoutineMaxDaysInputs == {2, 14}

\* -------------------------------------------------------------- rationals
None == <<>>

Abs(x) == IF x < 0 THEN 0 - x ELSE x

RECURSIVE GCD(_, _)
GCD(a, b) == IF b = 0 THEN a ELSE GCD(b, a % b)

Rat(n, d) ==
    LET s == IF d < 0 THEN 0 - 1 ELSE 1
        g == GCD(Abs(n), Abs(d))
    IN  <<(s * n) \div g, (s * d) \div g>>

Int2Rat(n) == <<n, 1>>
RAdd(a, b) == Rat(a[1] * b[2] + b[1] * a[2], a[2] * b[2])
RSub(a, b) == Rat(a[1] * b[2] - b[1] * a[2], a[2] * b[2])
RMul(a, b) == Rat(a[1] * b[1], a[2] * b[2])
RDiv(a, b) == Rat(a[1] * b[2], a[2] * b[1])
RLess(a, b) == a[1] * b[2] < b[1] * a[2]
RLeq(a, b) == a[1] * b[2] <= b[1] * a[2]
RMax(a, b) == IF RLess(a, b) THEN b ELSE a
RMin(a, b) == IF RLess(b, a) THEN b ELSE a

RECURSIVE RSum(_)
RSum(s) == IF s = <<>> THEN <<0, 1>> ELSE RAdd(Head(s), RSum(Tail(s)))

RECURSIVE Sum(_)
Sum(s) == IF s = <<>> THEN 0 ELSE Head(s) + Sum(Tail(s))

RECURSIVE Pow2(_)
Pow2(k) == IF k = 0 THEN 1 ELSE 2 * Pow2(k - 1)

\* Python round(): to the nearest integer, a tie to the even neighbour.
Round(r) ==
    LET q == r[1] \div r[2]
        m == r[1] % r[2]
    IN  IF 2 * m < r[2] THEN q
        ELSE IF 2 * m > r[2] THEN q + 1
        ELSE IF q % 2 = 0 THEN q ELSE q + 1

\* statistics.mean, and the square of statistics.stdev (sample variance).
Mean(s) == Rat(Sum(s), Len(s))

Variance(s) ==
    LET m == Mean(s)
        sq == [i \in 1..Len(s) |->
                 RMul(RSub(Int2Rat(s[i]), m), RSub(Int2Rat(s[i]), m))]
    IN  RDiv(RSum(sq), Int2Rat(Len(s) - 1))

\* --------------------------------------------------------------- calendar
MonthLengths == <<31, 29, 31, 30, 31, 30, 31, 31, 30, 31, 30, 31>>

RECURSIVE MonthFrom(_, _)
MonthFrom(d, m) ==
    IF m = 12 \/ d < MonthLengths[m] THEN m
    ELSE MonthFrom(d - MonthLengths[m], m + 1)

\* datetime.strptime(event_date, '%Y-%m-%d').month
MonthOf(day) == MonthFrom(day % 366, 1)

DateOf(tick) == tick \div TicksPerDay

\* ------------------------------------------------------------------ state
VARIABLES
    products,      \* table products: product_id -> category_type, category_override
    events,        \* table purchase_events, in insertion (row id) order
    orders,        \* table orders: the number of rows (the last order id)
    stats,         \* table product_statistics: product_id -> row
    pantry,        \* table pantry_items: product_id -> row
    seasonal,      \* table seasonal_patterns: product_id -> month -> row
    cartFile,      \* kroger_cart.json
    historyFile,   \* kroger_order_history.json
    marker,        \* .kroger_analytics_migrated exists
    initialized,   \* database._initialized of the running process
    config,        \* config._config of the running process
    now,           \* datetime.now(), in ticks
    response,      \* what the last call returned
    calls,         \* the number of calls made so far
    running        \* client -> its mark_order_placed call in progress

vars == <<products, events, orders, stats, pantry, seasonal, cartFile,
          historyFile, marker, initialized, config, now, response, calls,
          running>>

\* The database and the process flags that the analytics functions change.
World ==
    [products |-> products, events |-> events, orders |-> orders,
     stats |-> stats, pantry |-> pantry, seasonal |-> seasonal,
     marker |-> marker, initialized |-> initialized]

Today == DateOf(now)

Categories == {"routine", "regular", "treat", "uncategorized"}

Event(p, q, t, d, o) ==
    [product_id |-> p, quantity |-> q, event_type |-> t, event_date |-> d,
     order_id |-> o]

\* ---------------------------------------------------- function arguments
\* A last_purchase_date that is NULL or empty; dates are day numbers >= 0.
NoDate == -1

AvgDaysInputs == {None, <<14, 1>>, <<15, 1>>, <<60, 1>>, <<61, 1>>}

\* Statistics rows: ones that lack something a prediction needs, and ones
\* that have it all.
StatsInputs ==
    [total_purchases : {1, 3},
     avg_days_between_purchases : {None, <<0, 1>>, <<1, 1>>},
     std_dev_days_sq : {<<0, 1>>},
     last_purchase_date : {NoDate, 3},
     category_type : {"uncategorized", "routine"}]
    \cup
    [total_purchases : {3},
     avg_days_between_purchases : {<<1, 1>>, <<15, 1>>},
     std_dev_days_sq : {<<0, 1>>, <<4, 1>>},
     last_purchase_date : {2, 3},
     category_type : Categories]

\* seasonality scores 0.4, 0.5, 0.7 and 0.8, by their squares
SeasonalityInputs == {<<4, 25>>, <<1, 4>>, <<49, 100>>, <<16, 25>>}

TotalPurchasesInputs == {2, 3}

\* update_config keyword arguments
ConfigInputs ==
    {[urgency_critical |-> <<19, 20>>, urgency_high |-> <<9, 10>>,
      urgency_medium |-> <<1, 2>>, buffer_routine |-> <<2, 1>>,
      buffer_regular |-> <<1, 1>>, buffer_treat |-> <<1, 2>>,
      seasonality_threshold |-> <<1, 2>>, routine_max_days |-> 15,
      regular_max_days |-> 61],
     [urgency_critical |-> <<9, 10>>, urgency_high |-> <<7, 10>>,
      urgency_medium |-> <<2, 5>>, buffer_routine |-> <<1, 1>>,
      buffer_regular |-> <<1, 2>>, buffer_treat |-> <<0, 1>>,
      seasonality_threshold |-> <<7, 10>>, routine_max_days |-> 14,
      regular_max_days |-> 60]}

\* get_holiday_date arguments: the holidays of the table and a name that is
\* not in it.
HolidayInputs ==
    {"thanksgiving", "christmas", "halloween", "easter", "july_4th", "labor_day"}

YearInputs == 2019..2030

\* Product descriptions: none, one without a keyword, and ones with
\* keywords of one or of several holidays.
DescriptionInputs ==
    {<<>>,
     <<"M", "i", "l", "k">>,
     <<"H", "a", "m", "b", "u", "r", "g", "e", "r">>,
     <<"E", "g", "g">>,
     <<"P", "u", "m", "p", "k", "i", "n", " ", "P", "I", "E">>,
     <<"C", "h", "i", "p", "s">>}

\* Event dates of a purchase list, oldest first.
EventDayInputs == {0, 20, 30, 40}

MaxPurchases == 4

PurchaseDateInputs ==
    {d \in UNION {[1..n -> EventDayInputs] : n \in 0..MaxPurchases} :
        \A i \in 1..(Len(d) - 1) : d[i] <= d[i + 1]}

\* Order dates of up to MaxPurchases + 1 orders, oldest first, among
\* January 21, November 6 and December 6 of 2024.
HolidayDateInputs ==
    {d \in UNION {[1..n -> {20, 310, 340}] : n \in 0..(MaxPurchases + 1)} :
        \A i \in 1..(Len(d) - 1) : d[i] <= d[i + 1]}

\* ------------------------------------------------------------- statistics
\* ORDER BY event_date ASC
RECURSIVE InsertByDate(_, _)
InsertByDate(e, s) ==
    IF s = <<>> THEN <<e>>
    ELSE IF Head(s).event_date <= e.event_date
         THEN <<Head(s)>> \o InsertByDate(e, Tail(s))
         ELSE <<e>> \o s

RECURSIVE SortByDate(_)
SortByDate(s) ==
    IF s = <<>> THEN <<>>
    ELSE InsertByDate(s[Len(s)], SortByDate(SubSeq(s, 1, Len(s) - 1)))

\* A ledger filter that lets every event type through.
IsAnyEvent(e) == e.event_type \in {"order_placed", "pantry_depleted", "cart_add"}

IsConsumption(e) == e.event_type \in {"order_placed", "pantry_depleted"}

ConsumptionEvents(evs, p) ==
    SortByDate(SelectSeq(evs, LAMBDA e : e.product_id = p /\ IsConsumption(e)))

\* A confidence is data * (1 - sqrt(spread_sq)); this is the value 0.0.
ZeroConfidence == [data |-> <<0, 1>>, spread_sq |-> <<0, 1>>]

NoConsumptionData(n) ==
    [days_between |-> None, std_dev_sq |-> <<0, 1>>,
     confidence |-> ZeroConfidence, sample_size |-> n]

\* ConsumptionRate(days_between=ewma, std_dev, confidence, sample_size)
ConsumptionRate(ewma, std_dev_sq, k) ==
    [days_between |-> ewma,
     std_dev_sq |-> std_dev_sq,
     confidence |->
         [data |-> RMin(<<1, 1>>, Rat(k, 10)),
          spread_sq |-> RMin(<<1, 1>>, RDiv(std_dev_sq, RMul(ewma, ewma)))],
     sample_size |-> k]

\* A rate that is the plain mean of the positive intervals.
CalculateConsumptionRateMean(purchase_events) ==
    LET n == Len(purchase_events)
        gaps == [i \in 1..(n - 1) |->
                   purchase_events[i + 1].event_date - purchase_events[i].event_date]
        intervals == SelectSeq(gaps, LAMBDA d : d > 0)
        k == Len(intervals)
    IN  IF n < 2 \/ k = 0 THEN NoConsumptionData(n)
        ELSE [days_between |-> Mean(intervals),
              std_dev_sq |-> IF k > 1 THEN Variance(intervals) ELSE <<0, 1>>,
              confidence |-> ZeroConfidence,
              sample_size |-> k]

CalculateConsumptionRate(purchase_events) ==
    LET n == Len(purchase_events)
        gaps == [i \in 1..(n - 1) |->
                   purchase_events[i + 1].event_date - purchase_events[i].event_date]
        intervals == SelectSeq(gaps, LAMBDA d : d > 0)
        k == Len(intervals)
        weights == [i \in 1..k |-> Rat(1, Pow2(k - i))]
        weighted == [i \in 1..k |-> RMul(weights[i], Int2Rat(intervals[i]))]
    IN  IF n < 2 THEN NoConsumptionData(n)
        ELSE IF k = 0 THEN NoConsumptionData(n)
        ELSE ConsumptionRate(RDiv(RSum(weighted), RSum(weights)),
                             IF k > 1 THEN Variance(intervals) ELSE <<0, 1>>,
                             k)

\* The square of calculate_seasonality_score.
CalculateSeasonalityScore(purchase_events) ==
    LET counts == [m \in 1..12 |->
                     Len(SelectSeq(purchase_events,
                                   LAMBDA e : MonthOf(e.event_date) = m))]
        mean_count == Mean(counts)
        cv_sq == RDiv(Variance(counts), RMul(mean_count, mean_count))
    IN  IF Len(purchase_events) < 4 THEN <<0, 1>>
        ELSE IF mean_count = <<0, 1>> THEN <<0, 1>>
        ELSE RMin(<<1, 1>>, RDiv(cv_sq, <<4, 1>>))

\* seasonality_score > t, on the squares (both sides are >= 0)
SeasonalityAbove(seasonality_sq, t) == RLess(RMul(t, t), seasonality_sq)

\* A detection that uses the default thresholds whatever the configuration.
DetectCategoryDefaults(avg_days, seasonality_sq, total_purchases, cfg) ==
    IF total_purchases < 3 THEN "uncategorized"
    ELSE IF SeasonalityAbove(seasonality_sq, <<7, 10>>) THEN "treat"
    ELSE IF avg_days = None THEN "uncategorized"
    ELSE IF RLeq(avg_days, <<14, 1>>) THEN "routine"
    ELSE IF RLeq(avg_days, <<60, 1>>) THEN "regular"
    ELSE IF SeasonalityAbove(seasonality_sq, <<2, 5>>) THEN "treat"
    ELSE "regular"

DetectCategory(avg_days, seasonality_sq, total_purchases, cfg) ==
    IF total_purchases < 3 THEN "uncategorized"
    ELSE IF SeasonalityAbove(seasonality_sq, cfg.seasonality_threshold) THEN "treat"
    ELSE IF avg_days = None THEN "uncategorized"
    ELSE IF RLeq(avg_days, Int2Rat(cfg.routine_max_days)) THEN "routine"
    ELSE IF RLeq(avg_days, Int2Rat(cfg.regular_max_days)) THEN "regular"
    ELSE IF SeasonalityAbove(seasonality_sq, <<2, 5>>) THEN "treat"
    ELSE "regular"

\* The row update_product_stats upserts for a non-empty event list.
StatsRow(evs, cfg) ==
    LET total_purchases == Len(evs)
        total_quantity == Sum([i \in 1..Len(evs) |-> evs[i].quantity])
        consumption == CalculateConsumptionRate(evs)
        seasonality == CalculateSeasonalityScore(evs)
    IN  [total_purchases |-> total_purchases,
         total_quantity |-> total_quantity,
         avg_quantity_per_purchase |-> Rat(total_quantity, total_purchases),
         avg_days_between_purchases |-> consumption.days_between,
         std_dev_days_sq |-> consumption.std_dev_sq,
         last_purchase_date |-> evs[Len(evs)].event_date,
         first_purchase_date |-> evs[1].event_date,
         purchase_frequency_score |->
             IF consumption.days_between # None
                /\ RLess(<<0, 1>>, consumption.days_between)
             THEN RDiv(<<1, 1>>, consumption.days_between)
             ELSE <<0, 1>>,
         seasonality_sq |-> seasonality,
         detected_category |->
             DetectCategory(consumption.days_between, seasonality,
                            total_purchases, cfg)]

\* An update that patches the stored row instead of replacing it.
UpdateProductStatsAccumulating(W, p) ==
    LET evs == ConsumptionEvents(W.events, p)
        row == StatsRow(evs, config)
    IN  IF evs = <<>> THEN W
        ELSE [W EXCEPT !.stats =
                 [q \in DOMAIN W.stats \cup {p} |->
                    IF q # p THEN W.stats[q]
                    ELSE IF p \in DOMAIN W.stats
                    THEN [row EXCEPT !.total_purchases =
                             @ + W.stats[p].total_purchases]
                    ELSE row]]

\* update_product_stats after ensure_initialized: no row is written for a
\* product without consumption events.
UpdateProductStats(W, p) ==
    LET evs == ConsumptionEvents(W.events, p)
    IN  IF evs = <<>> THEN W
        ELSE [W EXCEPT !.stats =
                 [q \in DOMAIN W.stats \cup {p} |->
                    IF q = p THEN StatsRow(evs, config) ELSE W.stats[q]]]

RECURSIVE UpdateAllProductStats(_, _)
UpdateAllProductStats(W, ids) ==
    IF ids = <<>> THEN W
    ELSE UpdateAllProductStats(UpdateProductStats(W, Head(ids)), Tail(ids))

\* ------------------------------------------------------------- categories
NewProduct == [category_type |-> "uncategorized", category_override |-> FALSE]

\* ensure_product_exists / INSERT OR IGNORE INTO products
EnsureProductExists(W, p) ==
    IF p \in DOMAIN W.products THEN W
    ELSE [W EXCEPT !.products =
             [q \in DOMAIN W.products \cup {p} |->
                IF q = p THEN NewProduct ELSE W.products[q]]]

\* category in valid_categories
ValidCategory(category) == category \in Categories

\* set_product_category after ensure_initialized, for a valid category
SetProductCategory(W, p, category, is_override) ==
    [W EXCEPT !.products =
        [q \in DOMAIN W.products \cup {p} |->
           IF q = p
           THEN [category_type |-> category, category_override |-> is_override]
           ELSE W.products[q]]]

\* The category auto_categorize_all detects from the joined statistics row.
AutoCategory(W, p) ==
    IF p \in DOMAIN W.stats
    THEN DetectCategory(W.stats[p].avg_days_between_purchases,
                        W.stats[p].seasonality_sq,
                        W.stats[p].total_purchases, config)
    ELSE DetectCategory(None, <<0, 1>>, 0, config)

\* A categorisation pass whose UPDATE has no category_override filter.
AutoCategorizeAllIgnoringOverride(W) ==
    [W EXCEPT !.products =
        [q \in DOMAIN W.products |->
           [W.products[q] EXCEPT !.category_type = AutoCategory(W, q)]]]

AutoCategorizeAll(W) ==
    [W EXCEPT !.products =
        [q \in DOMAIN W.products |->
           IF W.products[q].category_override
           THEN W.products[q]
           ELSE [W.products[q] EXCEPT !.category_type = AutoCategory(W, q)]]]

\* ----------------------------------------------------------------- pantry
\* A level stored as given.
Unclamped(level) == level

Clamp(level) ==
    IF level < 0 THEN 0 ELSE IF level > 100 THEN 100 ELSE level

CalculateDepletionRate(W, p) ==
    IF p \in DOMAIN W.stats
       /\ W.stats[p].avg_days_between_purchases # None
       /\ RLess(<<0, 1>>, W.stats[p].avg_days_between_purchases)
    THEN RDiv(<<100, 1>>, W.stats[p].avg_days_between_purchases)
    ELSE <<0, 1>>

\* restock_item after ensure_initialized; p is a row of products (the
\* foreign key of pantry_items rejects any other product).
RestockItem(W, p, level) ==
    LET depletion_rate == CalculateDepletionRate(W, p)
        row == IF p \in DOMAIN W.pantry
               THEN [W.pantry[p] EXCEPT
                        !.level_percent = Clamp(level),
                        !.last_restocked_at = now,
                        !.last_updated_at = now,
                        !.daily_depletion_rate = depletion_rate]
               ELSE [level_percent |-> Clamp(level),
                     last_restocked_at |-> now,
                     last_updated_at |-> now,
                     auto_deplete |-> TRUE,
                     daily_depletion_rate |-> depletion_rate,
                     low_threshold |-> 20]
    IN  [W EXCEPT !.pantry =
            [q \in DOMAIN W.pantry \cup {p} |->
               IF q = p THEN row ELSE W.pantry[q]]]

\* add_to_pantry after ensure_initialized; p is a row of products.
AddToPantry(W, p, level, low_threshold, auto_deplete) ==
    LET depletion_rate ==
            IF auto_deplete THEN CalculateDepletionRate(W, p) ELSE <<0, 1>>
        row == IF p \in DOMAIN W.pantry
               THEN [W.pantry[p] EXCEPT
                        !.low_threshold = low_threshold,
                        !.auto_deplete = auto_deplete]
               ELSE [level_percent |-> Clamp(level),
                     last_restocked_at |-> now,
                     last_updated_at |-> now,
                     auto_deplete |-> auto_deplete,
                     daily_depletion_rate |-> depletion_rate,
                     low_threshold |-> low_threshold]
    IN  [W EXCEPT !.pantry =
            [q \in DOMAIN W.pantry \cup {p} |->
               IF q = p THEN row ELSE W.pantry[q]]]

\* _record_depletion_event. fault names the statement that raises, "none"
\* when none does; the except clause turns any exception into False.
RecordDepletionEvent(W, p, depleted_at, fault) ==
    LET W1 == [W EXCEPT !.events =
                  Append(@, Event(p, 1, "pantry_depleted", DateOf(depleted_at), 0))]
        W2 == UpdateProductStats(W1, p)
        W3 == [W2 EXCEPT !.pantry[p].daily_depletion_rate =
                  CalculateDepletionRate(W2, p)]
    IN  IF fault = "insert" THEN [world |-> W, recorded |-> FALSE]
        ELSE IF fault = "stats" THEN [world |-> W1, recorded |-> FALSE]
        ELSE IF fault = "rate" THEN [world |-> W2, recorded |-> FALSE]
        ELSE [world |-> W3, recorded |-> TRUE]

\* A feedback rule that does not look at the previous level.
DepletionObservedAnyPrevious(W, p, level) ==
    /\ Clamp(level) <= 5
    /\ W.pantry[p].last_restocked_at >= 0

DepletionObserved(W, p, level) ==
    /\ Clamp(level) <= 5
    /\ W.pantry[p].level_percent > 5
    /\ W.pantry[p].last_restocked_at >= 0    \* set by every INSERT of a row

\* A level update that a failed depletion record aborts.
UpdatePantryLevelAborting(W, p, level, fault) ==
    LET dep == IF DepletionObserved(W, p, level)
               THEN RecordDepletionEvent(W, p, now, fault)
               ELSE [world |-> W, recorded |-> TRUE]
    IN  [world |-> IF dep.recorded
                   THEN [dep.world EXCEPT
                            !.pantry[p].level_percent = Clamp(level),
                            !.pantry[p].last_updated_at = now]
                   ELSE dep.world,
         recorded |-> dep.recorded]

\* update_pantry_level after ensure_initialized, for a tracked item.
UpdatePantryLevel(W, p, level, fault) ==
    LET dep == IF DepletionObserved(W, p, level)
               THEN RecordDepletionEvent(W, p, now, fault)
               ELSE [world |-> W, recorded |-> FALSE]
    IN  [world |-> [dep.world EXCEPT
                       !.pantry[p].level_percent = Clamp(level),
                       !.pantry[p].last_updated_at = now],
         recorded |-> dep.recorded]

\* A decay without the floor at 0.
DecayedLevelUnfloored(item, at) ==
    RSub(Int2Rat(item.level_percent),
         RMul(Rat(at - item.last_updated_at, TicksPerDay),
              item.daily_depletion_rate))

\* level - days_elapsed * daily_depletion_rate, floored at 0
DecayedLevel(item, at) ==
    RMax(<<0, 1>>,
         RSub(Int2Rat(item.level_percent),
              RMul(Rat(at - item.last_updated_at, TicksPerDay),
                   item.daily_depletion_rate)))

\* One entry of the list get_pantry_status returns.
PantryStatusOf(item, at, apply_depletion) ==
    LET level == IF apply_depletion /\ item.auto_deplete
                    /\ item.daily_depletion_rate # <<0, 1>>
                    /\ item.last_updated_at >= 0
                 THEN DecayedLevel(item, at)
                 ELSE Int2Rat(item.level_percent)
    IN  [level_percent |-> Round(level),
         status |-> IF RLeq(level, <<0, 1>>) THEN "out"
                    ELSE IF RLeq(level, Int2Rat(item.low_threshold)) THEN "low"
                    ELSE "ok",
         low_threshold |-> item.low_threshold,
         auto_deplete |-> item.auto_deplete]

GetPantryStatus(W, apply_depletion) ==
    [p \in DOMAIN W.pantry |-> PantryStatusOf(W.pantry[p], now, apply_depletion)]

\* get_low_inventory_items after ensure_initialized; threshold is <<>> for
\* None and <<t>> for the override t.
GetLowInventoryItems(W, threshold) ==
    LET items == GetPantryStatus(W, TRUE)
        check_threshold(item) == IF threshold # <<>> THEN threshold[1]
                                 ELSE item.low_threshold
    IN  [p \in {q \in DOMAIN items :
                   items[q].level_percent <= check_threshold(items[q])}
           |-> items[p]]

\* The rows apply_daily_depletion rewrites: auto-depleting, rate > 0, last
\* updated at least 0.01 day ago.
DepletionDue(item) ==
    /\ item.auto_deplete
    /\ RLess(<<0, 1>>, item.daily_depletion_rate)
    /\ item.last_updated_at >= 0
    /\ ~ RLess(Rat(now - item.last_updated_at, TicksPerDay), <<1, 100>>)

ApplyDailyDepletion(W) ==
    [W EXCEPT !.pantry =
        [p \in DOMAIN W.pantry |->
           IF DepletionDue(W.pantry[p])
           THEN [W.pantry[p] EXCEPT
                    !.level_percent = Round(DecayedLevel(W.pantry[p], now)),
                    !.last_updated_at = now]
           ELSE W.pantry[p]]]

\* ------------------------------------------------------------ predictions
Floor(r) == r[1] \div r[2]

\* The largest integer n <= x - sqrt(b), for rationals x and b >= 0.
FloorSubSqrt(x, b) ==
    LET f == Floor(x)
        low == f - Floor(b) - 2
        below(n) == LET d == RSub(x, Int2Rat(n))
                    IN  RLeq(<<0, 1>>, d) /\ RLeq(b, RMul(d, d))
    IN  CHOOSE n \in low..f :
           below(n) /\ \A m \in (n + 1)..f : ~ below(m)

\* round(x, 2) and round(x, 1)
Round2(r) == Rat(Round(RMul(r, <<100, 1>>)), 100)

Round1(r) == Rat(Round(RMul(r, <<10, 1>>)), 10)

\* get_product_statistics: the statistics row joined with the products row,
\* None when the product has no statistics row.
GetProductStatistics(W, p) ==
    IF p \notin DOMAIN W.stats THEN None
    ELSE [total_purchases |-> W.stats[p].total_purchases,
          avg_days_between_purchases |-> W.stats[p].avg_days_between_purchases,
          std_dev_days_sq |-> W.stats[p].std_dev_days_sq,
          last_purchase_date |-> W.stats[p].last_purchase_date,
          category_type |-> IF p \in DOMAIN W.products
                            THEN W.products[p].category_type
                            ELSE None]

GetUrgencyLabel(urgency) ==
    IF RLeq(<<9, 10>>, urgency) THEN "critical"
    ELSE IF RLeq(<<7, 10>>, urgency) THEN "high"
    ELSE IF RLeq(<<2, 5>>, urgency) THEN "medium"
    ELSE "low"

\* The RepurchasePrediction of the early returns.
NoPrediction(p, category, last_purchase_date, avg_days) ==
    [product_id |-> p, category |-> category, predicted |-> FALSE,
     urgency |-> <<0, 1>>, urgency_label |-> "low",
     confidence |-> ZeroConfidence,
     last_purchase_date |-> last_purchase_date, avg_days_between |-> avg_days]

\* One standard deviation of buffer for every category.
BufferMultiplierUniform(category) == <<1, 1>>

\* buffer_multiplier
BufferMultiplier(category) ==
    IF category = "routine" THEN <<1, 1>>
    ELSE IF category = "regular" THEN <<1, 2>>
    ELSE <<0, 1>>

\* An urgency without the step at days_until = 0.
UrgencyOfLinear(days_until, category) ==
    LET urgency == IF days_until < 0 THEN <<1, 1>>
                   ELSE IF days_until <= 14
                        THEN RSub(<<1, 1>>, Rat(days_until, 14))
                   ELSE <<0, 1>>
    IN  IF category = "routine" /\ RLess(<<0, 1>>, urgency)
        THEN RMin(<<1, 1>>, RMul(urgency, <<6, 5>>))
        ELSE urgency

UrgencyOf(days_until, category) ==
    LET urgency == IF days_until < 0 THEN <<1, 1>>
                   ELSE IF days_until = 0 THEN <<9, 10>>
                   ELSE IF days_until <= 14
                        THEN RSub(<<1, 1>>, Rat(days_until, 14))
                   ELSE <<0, 1>>
    IN  IF category = "routine" /\ RLess(<<0, 1>>, urgency)
        THEN RMin(<<1, 1>>, RMul(urgency, <<6, 5>>))
        ELSE urgency

\* A test that looks at the average only.
LacksAverage(stats_row) ==
    \/ stats_row.avg_days_between_purchases = None
    \/ stats_row.avg_days_between_purchases = <<0, 1>>

\* not avg_days or not last_date_str
LacksInterval(stats_row) ==
    \/ stats_row.avg_days_between_purchases = None
    \/ stats_row.avg_days_between_purchases = <<0, 1>>
    \/ stats_row.last_purchase_date = NoDate

\* predict_repurchase_date(product_id, stats) after ensure_initialized, for
\* the statistics it is given or has fetched. The predicted date is
\* base_day - sqrt(buffer_sq), in days since 2024-01-01.
PredictRepurchaseDate(p, stats_row, at) ==
    IF stats_row = None
    THEN NoPrediction(p, "uncategorized", NoDate, None)
    ELSE IF stats_row.total_purchases < 2
    THEN NoPrediction(p, stats_row.category_type, NoDate, None)
    ELSE IF LacksInterval(stats_row)
    THEN NoPrediction(p, stats_row.category_type, stats_row.last_purchase_date,
                      stats_row.avg_days_between_purchases)
    ELSE LET avg_days == stats_row.avg_days_between_purchases
             category == stats_row.category_type
             m == BufferMultiplier(category)
             base_day == RAdd(Int2Rat(stats_row.last_purchase_date), avg_days)
             buffer_sq == RMul(stats_row.std_dev_days_sq, RMul(m, m))
             days_until == FloorSubSqrt(RSub(base_day, Rat(at, TicksPerDay)),
                                        buffer_sq)
             urgency == UrgencyOf(days_until, category)
         IN  [product_id |-> p, category |-> category, predicted |-> TRUE,
              base_day |-> base_day, buffer_sq |-> buffer_sq,
              days_until |-> days_until,
              urgency |-> Round2(urgency),
              urgency_label |-> GetUrgencyLabel(urgency),
              confidence |->
                  [data |-> RMin(<<1, 1>>, Rat(stats_row.total_purchases, 10)),
                   spread_sq |->
                       IF RLess(<<0, 1>>, avg_days)
                       THEN RMin(<<1, 1>>,
                                 RDiv(stats_row.std_dev_days_sq,
                                      RMul(avg_days, avg_days)))
                       ELSE <<1, 1>>],
              last_purchase_date |-> stats_row.last_purchase_date,
              avg_days_between |-> Round1(avg_days)]

\* round(confidence, 2) < min_confidence, for confidence =
\* data * (1 - sqrt(spread_sq)): with n the least integer that is at least
\* 100 * min_confidence, 100 * confidence rounds below n when it is under
\* n - 1/2, or exactly n - 1/2 with n - 1 even.
ConfidenceBelow(confidence, min_confidence) ==
    LET d == confidence.data
        n == 0 - ((0 - 100 * min_confidence[1]) \div min_confidence[2])
        x == Rat(2 * n - 1, 200)
        gap_sq == RMul(RSub(d, x), RSub(d, x))
        loss_sq == RMul(RMul(d, d), confidence.spread_sq)
    IN  \/ RLess(d, x)
        \/ RLess(gap_sq, loss_sq)
        \/ gap_sq = loss_sq /\ n % 2 = 1

\* predictions.sort(key=lambda p: p.urgency, reverse=True): a stable sort
RECURSIVE SortByUrgency(_)
SortByUrgency(predictions) ==
    IF predictions = <<>> THEN <<>>
    ELSE LET rest == SortByUrgency(Tail(predictions))
             first == Head(predictions)
             ahead == SelectSeq(rest, LAMBDA q : RLess(first.urgency, q.urgency))
             behind == SelectSeq(rest, LAMBDA q : ~ RLess(first.urgency, q.urgency))
         IN  ahead \o <<first>> \o behind

\* A period query that does not look at days_ahead.
GetPredictionsUnbounded(W, rows, days_ahead, category_filter, min_confidence, include_overdue, at) ==
    LET selected == SelectSeq(rows, LAMBDA p :
                        /\ p \in DOMAIN W.stats /\ p \in DOMAIN W.products
                        /\ W.stats[p].total_purchases >= 2
                        /\ category_filter # "" =>
                              W.products[p].category_type = category_filter)
        predictions == [i \in 1..Len(selected) |->
                          PredictRepurchaseDate(
                              selected[i], GetProductStatistics(W, selected[i]), at)]
        kept == SelectSeq(predictions, LAMBDA pred :
                    /\ pred.predicted
                    /\ ~ ConfidenceBelow(pred.confidence, min_confidence)
                    /\ include_overdue \/ pred.days_until >= 0)
    IN  SortByUrgency(kept)

\* get_predictions_for_period after ensure_initialized; rows is the order
\* in which the query returns the product ids, and an empty category_filter
\* stands for None.
GetPredictionsForPeriod(W, rows, days_ahead, category_filter, min_confidence, include_overdue, at) ==
    LET selected == SelectSeq(rows, LAMBDA p :
                        /\ p \in DOMAIN W.stats /\ p \in DOMAIN W.products
                        /\ W.stats[p].total_purchases >= 2
                        /\ category_filter # "" =>
                              W.products[p].category_type = category_filter)
        predictions == [i \in 1..Len(selected) |->
                          PredictRepurchaseDate(
                              selected[i], GetProductStatistics(W, selected[i]), at)]
        kept == SelectSeq(predictions, LAMBDA pred :
                    /\ pred.predicted
                    /\ ~ ConfidenceBelow(pred.confidence, min_confidence)
                    /\ include_overdue \/ pred.days_until >= 0
                    /\ pred.days_until <= days_ahead)
    IN  SortByUrgency(kept)

\* --------------------------------------------------------------- seasonal
IsOrderPlaced(e) == e.event_type = "order_placed"

OrderEvents(evs, p) ==
    SelectSeq(evs, LAMBDA e : e.product_id = p /\ IsOrderPlaced(e))

Months == 1..12

\* monthly_data[month]['count'] of update_seasonal_patterns
MonthCounts(evs) ==
    [m \in Months |->
       Cardinality({i \in 1..Len(evs) : MonthOf(evs[i].event_date) = m})]

\* monthly_data[month]['quantity'] of update_seasonal_patterns
MonthQuantities(evs) ==
    [m \in Months |->
       Sum([i \in 1..Len(evs) |->
              IF MonthOf(evs[i].event_date) = m THEN evs[i].quantity ELSE 0])]

\* HOLIDAY_PATTERNS, in dictionary order: name, months and keywords; a
\* string is the sequence of its characters.
HolidayPatterns ==
    << [holiday |-> "thanksgiving", months |-> {10, 11},
        keywords |->
            {<<"t", "u", "r", "k", "e", "y">>,
             <<"s", "t", "u", "f", "f", "i", "n", "g">>,
             <<"c", "r", "a", "n", "b", "e", "r", "r", "y">>,
             <<"p", "i", "e">>,
             <<"g", "r", "a", "v", "y">>}],
       [holiday |-> "christmas", months |-> {11, 12},
        keywords |->
            {<<"h", "a", "m">>,
             <<"e", "g", "g", "n", "o", "g">>,
             <<"c", "a", "n", "d", "y", " ", "c", "a", "n", "e">>,
             <<"g", "i", "n", "g", "e", "r", "b", "r", "e", "a", "d">>,
             <<"f", "r", "u", "i", "t", "c", "a", "k", "e">>}],
       [holiday |-> "halloween", months |-> {9, 10},
        keywords |->
            {<<"c", "a", "n", "d", "y">>,
             <<"p", "u", "m", "p", "k", "i", "n">>,
             <<"c", "h", "o", "c", "o", "l", "a", "t", "e">>}],
       [holiday |-> "easter", months |-> {3, 4},
        keywords |->
            {<<"h", "a", "m">>,
             <<"e", "g", "g">>,
             <<"c", "h", "o", "c", "o", "l", "a", "t", "e">>,
             <<"l", "a", "m", "b">>}],
       [holiday |-> "july_4th", months |-> {6, 7},
        keywords |->
            {<<"h", "o", "t", "d", "o", "g">>,
             <<"h", "a", "m", "b", "u", "r", "g", "e", "r">>,
             <<"b", "u", "n">>,
             <<"c", "h", "i", "p", "s">>,
             <<"w", "a", "t", "e", "r", "m", "e", "l", "o", "n">>}] >>

\* date(year, month, day).weekday(): Monday is 0, by the proleptic
\* Gregorian ordinal of the date.
Weekday(year, month, day) ==
    LET leap == year % 4 = 0 /\ (year % 100 # 0 \/ year % 400 = 0)
        before_year == (year - 1) * 365 + (year - 1) \div 4
                          - (year - 1) \div 100 + (year - 1) \div 400
        before_month == Sum([k \in 1..(month - 1) |->
                               IF k = 2 /\ ~ leap THEN 28 ELSE MonthLengths[k]])
    IN  (before_year + before_month + day + 6) % 7

\* An Easter that falls on March 31 every year.
CalculateEasterFixed(year) == [year |-> year, month |-> 3, day |-> 31]

\* _calculate_easter
CalculateEaster(year) ==
    LET a == year % 19
        b == year \div 100
        c == year % 100
        d == b \div 4
        e == b % 4
        f == (b + 8) \div 25
        g == (b - f + 1) \div 3
        h == (19 * a + b - d - g + 15) % 30
        i == c \div 4
        k == c % 4
        el == (32 + 2 * e + 2 * i - h - k) % 7
        m == (a + 11 * h + 22 * el) \div 451
    IN  [year |-> year,
         month |-> (h + el - 7 * m + 114) \div 31,
         day |-> ((h + el - 7 * m + 114) % 31) + 1]

\* get_holiday_date; first_thursday + timedelta(weeks=3) is at most
\* November 28, so the sum stays in November.
GetHolidayDate(holiday, year) ==
    IF holiday = "thanksgiving"
    THEN LET days_until_thursday == (3 - Weekday(year, 11, 1)) % 7
         IN  [year |-> year, month |-> 11,
              day |-> 1 + days_until_thursday + 21]
    ELSE IF holiday = "christmas" THEN [year |-> year, month |-> 12, day |-> 25]
    ELSE IF holiday = "halloween" THEN [year |-> year, month |-> 10, day |-> 31]
    ELSE IF holiday = "easter" THEN CalculateEaster(year)
    ELSE IF holiday = "july_4th" THEN [year |-> year, month |-> 7, day |-> 4]
    ELSE None

\* detect_holiday_association for a product without a description
DetectHolidayAssociation(evs) ==
    LET holiday_count(i) ==
            Cardinality({k \in 1..Len(evs) :
                           MonthOf(evs[k].event_date) \in HolidayPatterns[i].months})
        hits == {i \in 1..Len(HolidayPatterns) :
                    5 * holiday_count(i) >= 4 * Len(evs)}
    IN  IF Len(evs) < 2 \/ hits = {} THEN None
        ELSE HolidayPatterns[CHOOSE i \in hits : \A j \in hits : i <= j].holiday

\* str.lower() of one character
Lower(ch) ==
    LET upper == <<"A", "B", "C", "D", "E", "F", "G", "H", "I", "J", "K", "L", "M",
                   "N", "O", "P", "Q", "R", "S", "T", "U", "V", "W", "X", "Y", "Z">>
        lower == <<"a", "b", "c", "d", "e", "f", "g", "h", "i", "j", "k", "l", "m",
                   "n", "o", "p", "q", "r", "s", "t", "u", "v", "w", "x", "y", "z">>
    IN  IF \E i \in 1..26 : upper[i] = ch
        THEN lower[CHOOSE i \in 1..26 : upper[i] = ch]
        ELSE ch

\* A detection by keyword that reads the table from its end.
DetectHolidayLastKeyword(description, evs) ==
    LET occurs(kw, desc_lower) ==
            \E i \in 1..(Len(desc_lower) - Len(kw) + 1) :
                SubSeq(desc_lower, i, i + Len(kw) - 1) = kw
        hits == UNION {{i \in 1..Len(HolidayPatterns) :
                          \E kw \in HolidayPatterns[i].keywords :
                              occurs(kw, desc_lower)} :
                       desc_lower \in {[i \in 1..Len(description) |->
                                           Lower(description[i])]}}
    IN  IF hits # {}
        THEN HolidayPatterns[CHOOSE i \in hits : \A j \in hits : j <= i].holiday
        ELSE DetectHolidayAssociation(evs)

\* detect_holiday_association for the description it is given (the empty
\* sequence for None or '') and the order_placed events it has selected
DetectHolidayByDescription(description, evs) ==
    LET occurs(kw, desc_lower) ==
            \E i \in 1..(Len(desc_lower) - Len(kw) + 1) :
                SubSeq(desc_lower, i, i + Len(kw) - 1) = kw
        hits == UNION {{i \in 1..Len(HolidayPatterns) :
                          \E kw \in HolidayPatterns[i].keywords :
                              occurs(kw, desc_lower)} :
                       desc_lower \in {[i \in 1..Len(description) |->
                                           Lower(description[i])]}}
    IN  IF hits # {}
        THEN HolidayPatterns[CHOOSE i \in hits : \A j \in hits : i <= j].holiday
        ELSE DetectHolidayAssociation(evs)

\* count > mean_count + std_count, for the sample standard deviation
AbovePeak(count, counts) ==
    LET excess == RSub(Int2Rat(count), Mean(counts))
    IN  RLess(<<0, 1>>, excess) /\ RLess(Variance(counts), RMul(excess, excess))

\* The months update_seasonal_patterns marks as peak periods
PeakMonths(counts) == {m \in Months : AbovePeak(counts[m], counts)}

\* The rows update_seasonal_patterns writes, one for every month
SeasonalRows(counts, quantities, peaks, holiday) ==
    [m \in Months |->
       [purchase_count |-> counts[m],
        avg_quantity |->
            IF counts[m] > 0 THEN Rat(quantities[m], counts[m]) ELSE <<0, 1>>,
        is_peak_period |-> m \in peaks,
        holiday_association |-> IF m \in peaks THEN holiday ELSE None]]

\* update_seasonal_patterns after ensure_initialized
UpdateSeasonalPatterns(W, p) ==
    LET evs == OrderEvents(W.events, p)
    IN  IF evs = <<>> THEN W
        ELSE [W EXCEPT !.seasonal =
                 [q \in DOMAIN @ \cup {p} |->
                    IF q # p THEN @[q]
                    ELSE CHOOSE rows \in
                           {SeasonalRows(counts, MonthQuantities(e),
                                         PeakMonths(counts),
                                         DetectHolidayAssociation(e)) :
                              e \in {evs}, counts \in {MonthCounts(evs)}} : TRUE]]

\* -------------------------------------------------------------- migration
\* A gate that looks at the JSON files only.
NeedsMigrationIgnoringMarker(m, cart, hist) == cart.exists \/ hist.exists

NeedsMigration(m, cart, hist) ==
    IF m THEN FALSE
    ELSE IF ~ cart.exists /\ ~ hist.exists THEN FALSE
    ELSE TRUE

RECURSIVE MigrateItems(_, _, _, _)
MigrateItems(W, items, placed_at, order_id) ==
    IF items = <<>> THEN W
    ELSE LET item == Head(items)
             W1 == EnsureProductExists(W, item.product_id)
             W2 == [W1 EXCEPT !.events =
                       Append(@, Event(item.product_id, item.quantity,
                                       "order_placed", DateOf(placed_at),
                                       order_id))]
         IN  MigrateItems(W2, Tail(items), placed_at, order_id)

RECURSIVE MigrateOrders(_, _)
MigrateOrders(W, order_history) ==
    IF order_history = <<>> THEN W
    ELSE LET order == Head(order_history)
             W1 == [W EXCEPT !.orders = @ + 1]
         IN  MigrateOrders(
                 MigrateItems(W1, order.items, order.placed_at, W1.orders),
                 Tail(order_history))

RECURSIVE MigrateCart(_, _)
MigrateCart(W, current_cart) ==
    IF current_cart = <<>> THEN W
    ELSE LET item == Head(current_cart)
             W1 == EnsureProductExists(W, item.product_id)
             W2 == [W1 EXCEPT !.events =
                       Append(@, Event(item.product_id, item.quantity,
                                       "cart_add", DateOf(item.added_at), 0))]
         IN  MigrateCart(W2, Tail(current_cart))

ProductsOf(items) == {items[i].product_id : i \in 1..Len(items)}

MigratedProducts(cart, hist) ==
    UNION {ProductsOf(hist.orders[i].items) : i \in 1..Len(hist.orders)}
      \cup ProductsOf(cart.current_cart)

\* _update_migrated_stats
RECURSIVE UpdateMigratedStats(_, _)
UpdateMigratedStats(W, ids) ==
    IF ids = {} THEN AutoCategorizeAll(W)
    ELSE LET p == CHOOSE q \in ids : TRUE
         IN  UpdateMigratedStats(
                 UpdateSeasonalPatterns(UpdateProductStats(W, p), p),
                 ids \ {p})

\* An order whose placed_at is null: the INSERT INTO orders raises
\* sqlite3.IntegrityError (placed_at TEXT NOT NULL).
OrderRejected(order) == order.placed_at < 0

\* The migration raises inside its outer try block.
MigrationFails(hist) ==
    \E i \in 1..Len(hist.orders) : OrderRejected(hist.orders[i])

\* migrate_json_to_sqlite; the calls it makes run ensure_initialized, which
\* finds the marker and sets _initialized. An exception rolls back every
\* row inserted so far and leaves no marker.
MigrateJsonToSqlite(W, cart, hist) ==
    IF ~ NeedsMigration(W.marker, cart, hist) THEN W
    ELSE IF MigrationFails(hist) THEN W
    ELSE LET W1 == MigrateOrders(W, hist.orders)
             W2 == MigrateCart(W1, cart.current_cart)
             W3 == [W2 EXCEPT !.marker = TRUE, !.initialized = TRUE]
         IN  UpdateMigratedStats(W3, MigratedProducts(cart, hist))

EnsureInitialized(W, cart, hist) ==
    IF W.initialized THEN W
    ELSE [MigrateJsonToSqlite(W, cart, hist) EXCEPT !.initialized = TRUE]

\* ----------------------------------------------------------------- orders
RECURSIVE InsertOrderEvents(_, _, _)
InsertOrderEvents(W, cart_items, order_id) ==
    IF cart_items = <<>> THEN W
    ELSE LET item == Head(cart_items)
             W1 == EnsureProductExists(W, item.product_id)
             W2 == [W1 EXCEPT !.events =
                       Append(@, Event(item.product_id, item.quantity,
                                       "order_placed", Today, order_id))]
         IN  InsertOrderEvents(W2, Tail(cart_items), order_id)

RECURSIVE RestockPantryItems(_, _)
RestockPantryItems(W, cart_items) ==
    IF cart_items = <<>> THEN W
    ELSE LET p == Head(cart_items).product_id
             W1 == IF p \in DOMAIN W.pantry THEN RestockItem(W, p, 100) ELSE W
         IN  RestockPantryItems(W1, Tail(cart_items))

\* record_order after ensure_initialized
RecordOrder(W, cart_items) ==
    LET W1 == [W EXCEPT !.orders = @ + 1]
        W2 == InsertOrderEvents(W1, cart_items, W1.orders)
    IN  RestockPantryItems(W2, cart_items)

ProductIdList(cart_items) ==
    [i \in 1..Len(cart_items) |-> cart_items[i].product_id]

\* record_cart_add after ensure_initialized
RecordCartAdd(W, p, quantity) ==
    LET W1 == EnsureProductExists(W, p)
    IN  [W1 EXCEPT !.events = Append(@, Event(p, quantity, "cart_add", Today, 0))]

\* _add_item_to_local_cart: the cart list it saves
AddItemToLocalCart(current_cart, p, quantity) ==
    IF \E i \in 1..Len(current_cart) : current_cart[i].product_id = p
    THEN [i \in 1..Len(current_cart) |->
            IF current_cart[i].product_id = p
            THEN [current_cart[i] EXCEPT !.quantity = @ + quantity]
            ELSE current_cart[i]]
    ELSE Append(current_cart,
                [product_id |-> p, quantity |-> quantity, added_at |-> now])

\* ---------------------------------------------------------------- initial
NoCart == [exists |-> FALSE, current_cart |-> <<>>]
NoHistory == [exists |-> FALSE, orders |-> <<>>]

\* An order history written before the analytics database existed: two
\* orders of p1, on 2024-01-01 and 2024-01-04.
LegacyHistory ==
    [exists |-> TRUE,
     orders |-> << [items |-> << [product_id |-> "p1", quantity |-> 1,
                                   added_at |-> 0] >>,
                    placed_at |-> 0],
                   [items |-> << [product_id |-> "p1", quantity |-> 1,
                                   added_at |-> 3 * TicksPerDay] >>,
                    placed_at |-> 3 * TicksPerDay] >>]

\* PredictionConfig()
DefaultConfig ==
    [routine_max_days |-> 14, regular_max_days |-> 60,
     seasonality_threshold |-> <<7, 10>>,
     buffer_routine |-> <<1, 1>>, buffer_regular |-> <<1, 2>>,
     buffer_treat |-> <<0, 1>>,
     urgency_critical |-> <<9, 10>>, urgency_high |-> <<7, 10>>,
     urgency_medium |-> <<2, 5>>]

NoResponse == [op |-> "none"]

\* The processes that use the database at the same time.
Clients == {"a", "b"}

\* A client that is not inside a call.
Idle == [pc |-> "idle"]

\* The state of an installation whose clock reads t and whose order history
\* file is one of histories.
InitAt(t, histories) ==
    /\ products = [p \in {} |-> NewProduct]
    /\ events = <<>>
    /\ orders = 0
    /\ stats = [p \in {} |-> NewProduct]
    /\ pantry = [p \in {} |-> NewProduct]
    /\ seasonal = [p \in {} |-> NewProduct]
    /\ cartFile = NoCart
    /\ historyFile \in histories
    /\ marker = FALSE
    /\ initialized = FALSE
    /\ config = DefaultConfig
    /\ now = t
    /\ response = NoResponse
    /\ calls = 0
    /\ running = [c \in Clients |-> Idle]

Init == InitAt(StartTime, {NoHistory, LegacyHistory})

\* ---------------------------------------------------------------- actions
Commit(W) ==
    /\ products' = W.products
    /\ events' = W.events
    /\ orders' = W.orders
    /\ stats' = W.stats
    /\ pantry' = W.pantry
    /\ seasonal' = W.seasonal
    /\ marker' = W.marker
    /\ initialized' = W.initialized

\* The world a call works on once its ensure_initialized has returned.
Initialized == EnsureInitialized(World, cartFile, historyFile)

\* A behaviour makes at most MaxCalls calls.
Call == calls < MaxCalls /\ calls' = calls + 1

\* Time passes between calls.
Tick ==
    /\ now < MaxTime
    /\ now' = now + 1
    /\ response' = NoResponse
    /\ UNCHANGED <<products, events, orders, stats, pantry, seasonal, cartFile,
                   historyFile, marker, initialized, config, calls, running>>

\* The server process is restarted: module globals are reset, files stay.
Restart ==
    /\ initialized
    /\ initialized' = FALSE
    /\ response' = NoResponse
    /\ UNCHANGED <<products, events, orders, stats, pantry, seasonal, cartFile,
                   historyFile, marker, config, now, calls, running>>

\* cart_tools._add_item_to_local_cart
AddToCart(p, quantity) ==
    /\ Len(events) < MaxEvents
    /\ LET cart == [exists |-> TRUE,
                    current_cart |->
                        AddItemToLocalCart(cartFile.current_cart, p, quantity)]
       IN  /\ cartFile' = cart
           /\ Commit(RecordCartAdd(EnsureInitialized(World, cart, historyFile),
                                   p, quantity))
    /\ response' = [op |-> "add_to_cart", product_id |-> p]
    /\ Call
    /\ UNCHANGED <<historyFile, config, now, running>>

\* cart_tools.mark_order_placed with an empty cart
MarkOrderPlacedEmpty ==
    /\ cartFile.current_cart = <<>>
    /\ response' = [op |-> "mark_order_placed", success |-> FALSE]
    /\ Call
    /\ UNCHANGED <<products, events, orders, stats, pantry, seasonal, cartFile,
                   historyFile, marker, initialized, config, now, running>>

\* cart_tools.mark_order_placed
MarkOrderPlaced ==
    /\ Len(events) < MaxEvents
    /\ cartFile.current_cart # <<>>
    /\ LET current_cart == cartFile.current_cart
           history == [exists |-> TRUE,
                       orders |-> Append(historyFile.orders,
                                         [items |-> current_cart,
                                          placed_at |-> now])]
           W0 == EnsureInitialized(World, cartFile, history)
           W1 == RecordOrder(W0, current_cart)
           W2 == UpdateAllProductStats(W1, ProductIdList(current_cart))
       IN  /\ historyFile' = history
           /\ Commit(W2)
           /\ response' = [op |-> "mark_order_placed", success |-> TRUE,
                           items |-> ProductsOf(current_cart)]
    /\ cartFile' = [exists |-> TRUE, current_cart |-> <<>>]
    /\ Call
    /\ UNCHANGED <<config, now, running>>

\* statistics.update_product_stats
UpdateProductStatsCall(p) ==
    /\ LET W == UpdateProductStats(Initialized, p)
       IN  /\ Commit(W)
           /\ response' =
                 IF ConsumptionEvents(W.events, p) = <<>>
                 THEN [op |-> "update_product_stats", product_id |-> p,
                       total_purchases |-> 0]
                 ELSE [op |-> "update_product_stats", product_id |-> p,
                       row |-> W.stats[p]]
    /\ Call
    /\ UNCHANGED <<cartFile, historyFile, config, now, running>>

\* categories.set_product_category
SetProductCategoryCall(p, category, is_override) ==
    /\ IF ValidCategory(category)
       THEN /\ Commit(SetProductCategory(Initialized, p, category, is_override))
            /\ response' = [op |-> "set_product_category", product_id |-> p,
                            category |-> category]
       ELSE /\ Commit(Initialized)
            /\ response' = [op |-> "set_product_category", product_id |-> p,
                            category |-> category, error |-> "ValueError"]
    /\ Call
    /\ UNCHANGED <<cartFile, historyFile, config, now, running>>

\* categories.auto_categorize_all
AutoCategorizeAllCall ==
    /\ Commit(AutoCategorizeAll(Initialized))
    /\ response' = [op |-> "auto_categorize_all", success |-> TRUE]
    /\ Call
    /\ UNCHANGED <<cartFile, historyFile, config, now, running>>

\* pantry.add_to_pantry
AddToPantryCall(p, level, low_threshold, auto_deplete) ==
    /\ IF p \in DOMAIN Initialized.products
       THEN /\ Commit(AddToPantry(Initialized, p, level, low_threshold,
                                  auto_deplete))
            /\ response' = [op |-> "add_to_pantry", product_id |-> p,
                            success |-> TRUE]
       ELSE /\ Commit(Initialized)
            /\ response' = [op |-> "add_to_pantry", product_id |-> p,
                            error |-> "IntegrityError"]
    /\ Call
    /\ UNCHANGED <<cartFile, historyFile, config, now, running>>

\* pantry.restock_item
RestockItemCall(p, level) ==
    /\ IF p \in DOMAIN Initialized.products
       THEN /\ Commit(RestockItem(Initialized, p, level))
            /\ response' = [op |-> "restock_item", product_id |-> p,
                            success |-> TRUE]
       ELSE /\ Commit(Initialized)
            /\ response' = [op |-> "restock_item", product_id |-> p,
                            error |-> "IntegrityError"]
    /\ Call
    /\ UNCHANGED <<cartFile, historyFile, config, now, running>>

\* pantry.update_pantry_level; fault is the statement of
\* _record_depletion_event that raises ("none": no statement does).
UpdatePantryLevelWith(p, level, fault) ==
    /\ Len(events) < MaxEvents
    /\ IF p \in DOMAIN Initialized.pantry
       THEN LET r == UpdatePantryLevel(Initialized, p, level, fault)
            IN  /\ Commit(r.world)
                /\ response' = [op |-> "update_pantry_level", product_id |-> p,
                                level |-> level, success |-> TRUE,
                                level_percent |-> Clamp(level),
                                updated_at |-> now,
                                depletion_recorded |-> r.recorded]
       ELSE /\ Commit(Initialized)
            /\ response' = [op |-> "update_pantry_level", product_id |-> p,
                            level |-> level, success |-> FALSE]
    /\ Call
    /\ UNCHANGED <<cartFile, historyFile, config, now, running>>

UpdatePantryLevelCall(p, level) == UpdatePantryLevelWith(p, level, "none")

\* The statements of _record_depletion_event that can raise: the INSERT, the
\* update_product_stats call, the rate UPDATE.
Faults == {"insert", "stats", "rate"}

\* pantry.update_pantry_level when a statement of _record_depletion_event
\* raises
UpdatePantryLevelFailing(p, level) ==
    \E fault \in Faults : UpdatePantryLevelWith(p, level, fault)

\* pantry.apply_daily_depletion
ApplyDailyDepletionCall ==
    /\ Commit(ApplyDailyDepletion(Initialized))
    /\ response' = [op |-> "apply_daily_depletion", success |-> TRUE,
                    items_updated |->
                        Cardinality({p \in DOMAIN Initialized.pantry :
                                        DepletionDue(Initialized.pantry[p])})]
    /\ Call
    /\ UNCHANGED <<cartFile, historyFile, config, now, running>>

\* pantry.get_pantry_status()
GetPantryStatusCall ==
    /\ Commit(Initialized)
    /\ response' = [op |-> "get_pantry_status",
                    items |-> GetPantryStatus(Initialized, TRUE)]
    /\ Call
    /\ UNCHANGED <<cartFile, historyFile, config, now, running>>

\* migration.migrate_json_to_sqlite, as the migrate_purchase_data tool runs it
MigrateCall ==
    /\ Commit(MigrateJsonToSqlite(World, cartFile, historyFile))
    /\ response' = [op |-> "migrate_json_to_sqlite",
                    success |-> ~ (NeedsMigration(marker, cartFile, historyFile)
                                   /\ MigrationFails(historyFile)),
                    already_migrated |->
                        ~ NeedsMigration(marker, cartFile, historyFile)]
    /\ Call
    /\ UNCHANGED <<cartFile, historyFile, config, now, running>>

\* config.update_config(routine_max_days=v)
UpdateConfigCall(v) ==
    /\ config' = [config EXCEPT !.routine_max_days = v]
    /\ response' = [op |-> "update_config", success |-> TRUE]
    /\ Call
    /\ UNCHANGED <<products, events, orders, stats, pantry, seasonal, cartFile,
                   historyFile, marker, initialized, now, running>>

\* Cart and order traffic, the clock and restarts.
LedgerNext ==
    \/ Tick
    \/ Restart
    \/ \E p \in ProductIds, q \in 1..MaxQty : AddToCart(p, q)
    \/ MarkOrderPlacedEmpty
    \/ MarkOrderPlaced

\* The ledger with the statistics, category, migration and config calls.
Next ==
    \/ LedgerNext
    \/ \E p \in ProductIds : UpdateProductStatsCall(p)
    \/ \E p \in ProductIds, c \in CategoryInputs, o \in BOOLEAN :
          SetProductCategoryCall(p, c, o)
    \/ AutoCategorizeAllCall
    \/ MigrateCall
    \/ \E v \in RoutineMaxDaysInputs : UpdateConfigCall(v)

Spec == Init /\ [][Next]_vars

\* The ledger with the pantry calls.
PantryNext ==
    \/ LedgerNext
    \/ \E p \in ProductIds, l \in LevelInputs, t \in ThresholdInputs,
          a \in BOOLEAN : AddToPantryCall(p, l, t, a)
    \/ \E p \in ProductIds, l \in LevelInputs : RestockItemCall(p, l)
    \/ \E p \in ProductIds, l \in LevelInputs : UpdatePantryLevelCall(p, l)
    \/ ApplyDailyDepletionCall
    \/ GetPantryStatusCall

PantrySpec == Init /\ [][PantryNext]_vars

\* The ledger with the pantry writes, where recording a depletion fails.
FaultNext ==
    \/ LedgerNext
    \/ \E p \in ProductIds, l \in LevelInputs, t \in ThresholdInputs,
          a \in BOOLEAN : AddToPantryCall(p, l, t, a)
    \/ \E p \in ProductIds, l \in LevelInputs : RestockItemCall(p, l)
    \/ \E p \in ProductIds, l \in LevelInputs : UpdatePantryLevelFailing(p, l)

FaultSpec == Init /\ [][FaultNext]_vars

\* predictions.predict_repurchase_date(product_id)
PredictCall(p) ==
    /\ Commit(Initialized)
    /\ response' = [op |-> "predict_repurchase_date", product_id |-> p,
                    at |-> now,
                    prediction |->
                        PredictRepurchaseDate(
                            p, GetProductStatistics(Initialized, p), now)]
    /\ Call
    /\ UNCHANGED <<cartFile, historyFile, config, now, running>>

\* An order history of one order of p1, placed on 2024-01-01 by a version
\* without the analytics database.
EarlierOrder ==
    [exists |-> TRUE,
     orders |-> << [items |-> << [product_id |-> "p1", quantity |-> 1,
                                   added_at |-> 0] >>,
                    placed_at |-> 0] >>]

ScenarioInit == InitAt(0, {NoHistory, EarlierOrder})

\* The days on which the scenario makes calls, after 2024-01-01: 01-08,
\* 01-15, 01-20 and 02-02.
ScenarioDays == {7, 14, 19, 32}

\* The clock moves to midnight of a later scenario day; a day has its own
\* MaxCalls calls.
Advance(day) ==
    /\ now < day * TicksPerDay
    /\ now' = day * TicksPerDay
    /\ calls' = 0
    /\ response' = NoResponse
    /\ UNCHANGED <<products, events, orders, stats, pantry, seasonal, cartFile,
                   historyFile, marker, initialized, config, running>>

\* One product ordered through the cart over several weeks.
ScenarioNext ==
    \/ \E day \in ScenarioDays : Advance(day)
    \/ AddToCart("p1", 1)
    \/ MarkOrderPlaced
    \/ PredictCall("p1")

ScenarioSpec == ScenarioInit /\ [][ScenarioNext]_vars

\* predictions.predict_repurchase_date(product_id, stats)
PredictWith(p, stats_row) ==
    /\ Commit(Initialized)
    /\ response' = [op |-> "predict_repurchase_date", product_id |-> p,
                    at |-> now, stats |-> stats_row,
                    prediction |-> PredictRepurchaseDate(p, stats_row, now)]
    /\ Call
    /\ UNCHANGED <<cartFile, historyFile, config, now, running>>

\* categories.detect_category
DetectCategoryWith(avg_days, seasonality_sq, total_purchases) ==
    /\ response' = [op |-> "detect_category", avg_days |-> avg_days,
                    seasonality_sq |-> seasonality_sq,
                    total_purchases |-> total_purchases,
                    category |-> DetectCategory(avg_days, seasonality_sq,
                                                total_purchases, config)]
    /\ Call
    /\ UNCHANGED <<products, events, orders, stats, pantry, seasonal, cartFile,
                   historyFile, marker, initialized, config, now, running>>

\* The purchase list with the given event dates.
PurchasesOn(dates) ==
    [i \in 1..Len(dates) |-> Event("p1", 1, "order_placed", dates[i], 0)]

\* seasonal.detect_holiday_association for a product whose order_placed
\* events have the given dates
DetectHolidayAssociationWith(description, dates) ==
    /\ response' = [op |-> "detect_holiday_association",
                    description |-> description, dates |-> dates,
                    holiday |-> DetectHolidayByDescription(description,
                                                           PurchasesOn(dates))]
    /\ Call
    /\ UNCHANGED <<products, events, orders, stats, pantry, seasonal, cartFile,
                   historyFile, marker, initialized, config, now, running>>

\* statistics.calculate_consumption_rate
CalculateConsumptionRateWith(dates) ==
    /\ response' = [op |-> "calculate_consumption_rate", dates |-> dates,
                    rate |-> CalculateConsumptionRate(PurchasesOn(dates))]
    /\ Call
    /\ UNCHANGED <<products, events, orders, stats, pantry, seasonal, cartFile,
                   historyFile, marker, initialized, config, now, running>>

\* update_config(**kwargs): the configuration it saves
UpdateConfig(cfg, kwargs) ==
    [k \in DOMAIN cfg |-> IF k \in DOMAIN kwargs THEN kwargs[k] ELSE cfg[k]]

\* config.update_config(**kwargs)
UpdateConfigWith(kwargs) ==
    /\ config' = UpdateConfig(config, kwargs)
    /\ response' = [op |-> "update_config", success |-> TRUE]
    /\ Call
    /\ UNCHANGED <<products, events, orders, stats, pantry, seasonal, cartFile,
                   historyFile, marker, initialized, now, running>>

\* seasonal.get_holiday_date
GetHolidayDateWith(holiday, year) ==
    /\ response' = [op |-> "get_holiday_date", holiday |-> holiday,
                    year |-> year, date |-> GetHolidayDate(holiday, year)]
    /\ Call
    /\ UNCHANGED <<products, events, orders, stats, pantry, seasonal, cartFile,
                   historyFile, marker, initialized, config, now, running>>

\* The prediction, categorisation and consumption-rate functions on
\* arguments of the caller's choice, under changing configuration.
FunctionNext ==
    \/ \E kwargs \in ConfigInputs : UpdateConfigWith(kwargs)
    \/ PredictCall("p1")
    \/ \E stats_row \in StatsInputs : PredictWith("p1", stats_row)
    \/ \E avg_days \in AvgDaysInputs, seasonality_sq \in SeasonalityInputs,
          total_purchases \in TotalPurchasesInputs :
          DetectCategoryWith(avg_days, seasonality_sq, total_purchases)
    \/ \E dates \in PurchaseDateInputs : CalculateConsumptionRateWith(dates)
    \/ \E holiday \in HolidayInputs, year \in YearInputs :
          GetHolidayDateWith(holiday, year)

FunctionInit == InitAt(StartTime, {NoHistory})

FunctionSpec == FunctionInit /\ [][FunctionNext]_vars

\* Holiday detection for descriptions and purchase lists of up to
\* MaxPurchases + 1 orders.
HolidayNext ==
    \E description \in DescriptionInputs, dates \in HolidayDateInputs :
        DetectHolidayAssociationWith(description, dates)

HolidaySpec == FunctionInit /\ [][HolidayNext]_vars

\* An order history written by hand or by another tool: an order of p1
\* placed on 2024-01-01, then an order of p2 with "placed_at": null.
FaultyHistory ==
    [exists |-> TRUE,
     orders |-> << [items |-> << [product_id |-> "p1", quantity |-> 1,
                                   added_at |-> 0] >>,
                    placed_at |-> 0],
                   [items |-> << [product_id |-> "p2", quantity |-> 1,
                                   added_at |-> 0] >>,
                    placed_at |-> 0 - 1] >>]

\* The ledger with explicit migration and statistics calls, over order
\* histories with and without a record the database rejects.
BackfillNext ==
    \/ LedgerNext
    \/ MigrateCall
    \/ \E p \in ProductIds : UpdateProductStatsCall(p)

BackfillSpec ==
    InitAt(StartTime, {LegacyHistory, FaultyHistory}) /\ [][BackfillNext]_vars

\* The row update_product_stats computes from the events it has selected;
\* None when it has selected none.
ComputeStatsRow(W, p) ==
    IF ConsumptionEvents(W.events, p) = <<>> THEN None
    ELSE StatsRow(ConsumptionEvents(W.events, p), config)

\* The upsert of update_product_stats and its commit.
UpsertStatsRow(W, p, row) ==
    IF row = None THEN W
    ELSE [W EXCEPT !.stats =
             [q \in DOMAIN @ \cup {p} |-> IF q = p THEN row ELSE @[q]]]

\* mark_order_placed of client c, up to the return of record_order: the
\* cart is loaded, the order is appended to the history file and recorded.
StartOrderBy(c) ==
    /\ Len(events) < MaxEvents
    /\ running[c].pc = "idle"
    /\ cartFile.current_cart # <<>>
    /\ LET history == [exists |-> TRUE,
                       orders |-> Append(historyFile.orders,
                                         [items |-> cartFile.current_cart,
                                          placed_at |-> now])]
       IN  /\ historyFile' = history
           /\ Commit(RecordOrder(EnsureInitialized(World, cartFile, history),
                                  cartFile.current_cart))
    /\ running' = [running EXCEPT
                      ![c] = [pc |-> "recorded",
                              product_id |-> cartFile.current_cart[1].product_id]]
    /\ response' = NoResponse
    /\ Call
    /\ UNCHANGED <<cartFile, config, now>>

\* update_product_stats of client c, up to the upsert: the events are
\* selected and the row is computed, outside any transaction.
ReadEventsBy(c) ==
    /\ running[c].pc = "recorded"
    /\ running' = [running EXCEPT
                      ![c] = [pc |-> "read", product_id |-> @.product_id,
                              row |-> ComputeStatsRow(World, @.product_id)]]
    /\ response' = NoResponse
    /\ UNCHANGED <<products, events, orders, stats, pantry, seasonal, cartFile,
                   historyFile, marker, initialized, config, now, calls>>

\* The rest of mark_order_placed of client c: the upsert of
\* update_product_stats and its commit, then the cart is cleared.
WriteStatsBy(c) ==
    /\ running[c].pc = "read"
    /\ Commit(UpsertStatsRow(World, running[c].product_id, running[c].row))
    /\ cartFile' = [exists |-> TRUE, current_cart |-> <<>>]
    /\ running' = [running EXCEPT ![c] = Idle]
    /\ response' = [op |-> "mark_order_placed", success |-> TRUE,
                    items |-> {running[c].product_id}]
    /\ UNCHANGED <<historyFile, config, now, calls>>

\* Two clients that mark orders of one product as placed at the same time.
RaceNext ==
    \/ Tick
    \/ AddToCart("p1", 1)
    \/ \E c \in Clients : StartOrderBy(c)
    \/ \E c \in Clients : ReadEventsBy(c)
    \/ \E c \in Clients : WriteStatsBy(c)

RaceSpec == Init /\ [][RaceNext]_vars

\* An order history with two products: p1 ordered on 2024-01-01 and
\* 2024-01-04, p2 on 2024-01-02 and 2024-01-04.
TwoProductHistory ==
    [exists |-> TRUE,
     orders |-> << [items |-> << [product_id |-> "p1", quantity |-> 1,
                                   added_at |-> 0] >>,
                    placed_at |-> 0],
                   [items |-> << [product_id |-> "p2", quantity |-> 1,
                                   added_at |-> TicksPerDay] >>,
                    placed_at |-> TicksPerDay],
                   [items |-> << [product_id |-> "p1", quantity |-> 1,
                                   added_at |-> 3 * TicksPerDay],
                                 [product_id |-> "p2", quantity |-> 1,
                                   added_at |-> 3 * TicksPerDay] >>,
                    placed_at |-> 3 * TicksPerDay] >>]

\* predictions.get_predictions_for_period; the query has no ORDER BY, so
\* its rows come in either order.
GetPredictionsForPeriodCall(rows, days_ahead, category_filter, min_confidence, include_overdue) ==
    /\ Commit(Initialized)
    /\ response' = [op |-> "get_predictions_for_period",
                    days_ahead |-> days_ahead,
                    category_filter |-> category_filter,
                    min_confidence |-> min_confidence,
                    include_overdue |-> include_overdue, at |-> now,
                    predictions |->
                        GetPredictionsForPeriod(Initialized, rows, days_ahead,
                                                category_filter, min_confidence,
                                                include_overdue, now)]
    /\ Call
    /\ UNCHANGED <<cartFile, historyFile, config, now, running>>

\* An order history in which p2 was ordered once: p1 on 2024-01-01 and
\* 2024-01-04, p2 on 2024-01-04.
SingleOrderHistory ==
    [exists |-> TRUE,
     orders |-> << [items |-> << [product_id |-> "p1", quantity |-> 1,
                                   added_at |-> 0] >>,
                    placed_at |-> 0],
                   [items |-> << [product_id |-> "p1", quantity |-> 1,
                                   added_at |-> 3 * TicksPerDay],
                                 [product_id |-> "p2", quantity |-> 1,
                                   added_at |-> 3 * TicksPerDay] >>,
                    placed_at |-> 3 * TicksPerDay] >>]

\* Category changes and period queries as time passes.
PeriodNext ==
    \/ Tick
    \/ Restart
    \/ \E p \in ProductIds, o \in BOOLEAN : SetProductCategoryCall(p, "treat", o)
    \/ \E rows \in {<<"p1", "p2">>, <<"p2", "p1">>},
          days_ahead \in {0, 1},
          category_filter \in {"", "treat"},
          min_confidence \in {<<1, 5>>, <<1, 4>>},
          include_overdue \in BOOLEAN :
          GetPredictionsForPeriodCall(rows, days_ahead, category_filter,
                                      min_confidence, include_overdue)

PeriodSpec ==
    InitAt(StartTime, {SingleOrderHistory, TwoProductHistory})
        /\ [][PeriodNext]_vars

\* Restocks to full, manual level updates and daily depletion as time
\* passes, for products bought every two or three days.
DecayNext ==
    \/ Tick
    \/ \E p \in ProductIds : RestockItemCall(p, 100)
    \/ \E p \in ProductIds, l \in LevelInputs : UpdatePantryLevelCall(p, l)
    \/ ApplyDailyDepletionCall

DecaySpec == InitAt(StartTime, {TwoProductHistory}) /\ [][DecayNext]_vars

\* pantry.get_low_inventory_items(threshold)
GetLowInventoryItemsCall(threshold) ==
    /\ Commit(Initialized)
    /\ response' = [op |-> "get_low_inventory_items", threshold |-> threshold,
                    items |-> GetLowInventoryItems(Initialized, threshold)]
    /\ Call
    /\ UNCHANGED <<cartFile, historyFile, config, now, running>>

\* Items added to the pantry at several levels and thresholds, and the
\* low-inventory read as time passes.
InventoryNext ==
    \/ Tick
    \/ \E p \in ProductIds, l \in {67, 100}, t \in {20, 33}, a \in BOOLEAN :
          AddToPantryCall(p, l, t, a)
    \/ \E threshold \in {<<>>, <<50>>} : GetLowInventoryItemsCall(threshold)

InventorySpec == InitAt(StartTime, {LegacyHistory}) /\ [][InventoryNext]_vars

\* ------------------------------------------------------------- properties
\* C1: once set_product_category(p, c, is_override=True) has set the flag of
\* p, no step changes p's category_type or clears the flag unless the step
\* is a set_product_category call on p; auto_categorize_all,
\* update_product_stats, record_order and the migration leave the row alone.
C1_OverrideSticky ==
    [][\A p \in DOMAIN products :
          products[p].category_override =>
             \/ p \in DOMAIN products' /\ products'[p] = products[p]
             \/ response'.op = "set_product_category"
                /\ response'.product_id = p]_vars

\* An overridden product has come through auto_categorize_all with a
\* category the detection would not have given it.
C1_Witness ==
    \E p \in DOMAIN products :
        /\ products[p].category_override
        /\ response.op = "auto_categorize_all"
        /\ AutoCategory(World, p) # products[p].category_type

\* The order_placed and pantry_depleted events of p, oldest first.
QualifyingEvents(p) ==
    SortByDate(SelectSeq(events,
        LAMBDA e : e.product_id = p
                   /\ e.event_type \in {"order_placed", "pantry_depleted"}))

\* C2: in every state (so after every order marked as placed, every pantry
\* depletion feedback and every migration) a product has a statistics row
\* exactly when it has order_placed or pantry_depleted events, and the row
\* is what recomputing from those events gives; cart_add events have no
\* part in it.
C2_StatsDerivable ==
    \A p \in ProductIds :
        IF QualifyingEvents(p) = <<>>
        THEN p \notin DOMAIN stats
        ELSE p \in DOMAIN stats
             /\ stats[p] = StatsRow(QualifyingEvents(p), config)

\* A product with cart_add events whose row counts its orders and a
\* pantry depletion.
C2_Witness ==
    \E p \in DOMAIN stats :
        /\ \E i \in 1..Len(events) :
              events[i].product_id = p /\ events[i].event_type = "cart_add"
        /\ \E i \in 1..Len(events) :
              events[i].product_id = p
              /\ events[i].event_type = "pantry_depleted"
        /\ stats[p].total_purchases = Len(QualifyingEvents(p))
        /\ stats[p].total_purchases >= 3

\* C3: update_product_stats(p) run again on what update_product_stats(p)
\* left gives the same world, and of two update_product_stats(p) calls with
\* no step in between the second returns the fields the first returned and
\* leaves product_statistics as it was.
C3_Idempotent ==
    /\ [](\A p \in ProductIds :
             UpdateProductStats(UpdateProductStats(Initialized, p), p)
                = UpdateProductStats(Initialized, p))
    /\ [][(/\ response.op = "update_product_stats"
           /\ response'.op = "update_product_stats"
           /\ response'.product_id = response.product_id)
          => response' = response /\ stats' = stats]_vars

\* update_product_stats has returned a row with a known average interval,
\* as a later call of the behaviour.
C3_Witness ==
    /\ response.op = "update_product_stats"
    /\ calls >= 2
    /\ "row" \in DOMAIN response
    /\ response.row = stats[response.product_id]
    /\ response.row.avg_days_between_purchases # None

\* C4: after update_product_stats(p) has computed a row for a product whose
\* category_override is false, products.category_type of p is
\* detect_category of the new average interval, seasonality score and
\* purchase count.
C4_CategoryFollowsStats ==
    (response.op = "update_product_stats" /\ "row" \in DOMAIN response) =>
        LET p == response.product_id
            row == response.row
        IN  (p \in DOMAIN products /\ ~ products[p].category_override) =>
                products[p].category_type =
                    DetectCategory(row.avg_days_between_purchases,
                                   row.seasonality_sq, row.total_purchases,
                                   config)

\* C5: an update_pantry_level(p, L) call on a tracked item appends exactly
\* one pantry_depleted event of p dated today, and leaves the statistics of
\* p recomputed and the item's daily_depletion_rate at 100 / the new
\* average, when L <= 5 and the stored level was > 5 and last_restocked_at
\* is set; every other update_pantry_level call appends no event.
C5_DepletionFeedback ==
    [][response'.op = "update_pantry_level" =>
         LET W == Initialized
             p == response'.product_id
             L == response'.level
         IN  IF /\ p \in DOMAIN W.pantry
                /\ L <= 5
                /\ W.pantry[p].level_percent > 5
                /\ W.pantry[p].last_restocked_at >= 0
             THEN /\ events' = Append(W.events,
                                      Event(p, 1, "pantry_depleted", Today, 0))
                  /\ p \in DOMAIN stats'
                  /\ stats'[p] =
                        StatsRow(SortByDate(SelectSeq(events',
                                     LAMBDA e : e.product_id = p
                                                /\ e.event_type # "cart_add")),
                                 config)
                  /\ pantry'[p].daily_depletion_rate =
                        IF stats'[p].avg_days_between_purchases = None
                        THEN <<0, 1>>
                        ELSE RDiv(<<100, 1>>,
                                  stats'[p].avg_days_between_purchases)
             ELSE events' = W.events]_vars

\* update_pantry_level has recorded a depletion: the last event of the
\* ledger is today's pantry_depleted event of the item.
C5_Witness ==
    /\ response.op = "update_pantry_level"
    /\ response.success
    /\ response.depletion_recorded
    /\ events # <<>>
    /\ events[Len(events)] =
          Event(response.product_id, 1, "pantry_depleted", Today, 0)

\* C6: an update_pantry_level call on a tracked item stores the clamped new
\* level and last_updated_at = now and returns success, whichever statement
\* of the depletion record (the event INSERT, the statistics recomputation,
\* the rate UPDATE) fails.
C6_LevelStoredDespiteFailure ==
    [][(/\ response'.op = "update_pantry_level"
        /\ response'.product_id \in DOMAIN Initialized.pantry)
       => LET p == response'.product_id
              L == response'.level
          IN  /\ response'.success
              /\ p \in DOMAIN pantry'
              /\ pantry'[p].level_percent =
                    (IF L < 0 THEN 0 ELSE IF L > 100 THEN 100 ELSE L)
              /\ pantry'[p].last_updated_at = now]_vars

\* A depletion whose statistics recomputation failed: the event is in the
\* ledger, the statistics row does not count it, the level is stored.
C6_Witness ==
    /\ response.op = "update_pantry_level"
    /\ response.success
    /\ ~ response.depletion_recorded
    /\ events # <<>>
    /\ events[Len(events)] =
          Event(response.product_id, 1, "pantry_depleted", Today, 0)
    /\ \/ response.product_id \notin DOMAIN stats
       \/ stats[response.product_id].total_purchases
             < Len(QualifyingEvents(response.product_id))
    /\ pantry[response.product_id].level_percent <= 5
    /\ pantry[response.product_id].last_updated_at = now

\* C7: a get_pantry_status call leaves every stored pantry row as it was and
\* reports, for each auto-depleting item, the integer nearest to
\* max(0, stored level - elapsed days * daily_depletion_rate); for the
\* item restocked to 100 at rate 10 it reports 50 five days later.
C7_LazyDecay ==
    [][response'.op = "get_pantry_status" =>
         /\ pantry' = pantry
         /\ DOMAIN response'.items = DOMAIN pantry
         /\ \A p \in DOMAIN pantry :
               LET item == pantry[p]
                   elapsed_days == Rat(now - item.last_updated_at, TicksPerDay)
                   exact == RMax(<<0, 1>>,
                                 RSub(Int2Rat(item.level_percent),
                                      RMul(elapsed_days,
                                           item.daily_depletion_rate)))
                   shown == Int2Rat(response'.items[p].level_percent)
               IN  item.auto_deplete =>
                      /\ RLeq(RSub(exact, <<1, 2>>), shown)
                      /\ RLeq(shown, RAdd(exact, <<1, 2>>))
         /\ PantryStatusOf([level_percent |-> 100, last_restocked_at |-> 0,
                            last_updated_at |-> 0, auto_deplete |-> TRUE,
                            daily_depletion_rate |-> <<10, 1>>,
                            low_threshold |-> 20],
                           5 * TicksPerDay, TRUE).level_percent = 50]_vars

\* get_pantry_status has reported a decayed level below the stored one.
C7_Witness ==
    /\ response.op = "get_pantry_status"
    /\ \E p \in DOMAIN pantry :
          /\ pantry[p].auto_deplete
          /\ pantry[p].last_updated_at < now
          /\ response.items[p].level_percent < pantry[p].level_percent

\* C8: an apply_daily_depletion call does not move what get_pantry_status
\* reports at any later read: for every item and every later time within
\* the horizon, the level reported from the rows the call left differs by
\* less than one point from the level reported from the rows it found.
C8_NoDoubleApply ==
    [][response'.op = "apply_daily_depletion" =>
         \A p \in DOMAIN pantry, e \in 0..Horizon :
            Abs(PantryStatusOf(pantry'[p], now + e, TRUE).level_percent
                - PantryStatusOf(pantry[p], now + e, TRUE).level_percent)
               < 1]_vars

\* C9: when mark_order_placed has processed an order (record_order with its
\* restock, then update_all_product_stats), every pantry-tracked product of
\* the order has daily_depletion_rate = 100 / avg_days_between_purchases of
\* its current statistics row, or 0 when that average is unknown.
C9_RateFollowsStats ==
    (response.op = "mark_order_placed" /\ response.success) =>
        \A p \in response.items \cap DOMAIN pantry :
            pantry[p].daily_depletion_rate =
                IF p \in DOMAIN stats
                   /\ stats[p].avg_days_between_purchases # None
                THEN RDiv(<<100, 1>>, stats[p].avg_days_between_purchases)
                ELSE <<0, 1>>

\* C10: every stored pantry row has level_percent in 0..100 and
\* daily_depletion_rate >= 0.
C10_LevelInRange ==
    \A p \in DOMAIN pantry :
        /\ 0 <= pantry[p].level_percent
        /\ pantry[p].level_percent <= 100
        /\ RLeq(<<0, 1>>, pantry[p].daily_depletion_rate)

\* apply_daily_depletion has rewritten a row whose decay ran past empty.
C10_Witness ==
    /\ response.op = "apply_daily_depletion"
    /\ response.items_updated > 0
    /\ \E p \in DOMAIN pantry :
          /\ pantry[p].level_percent = 0
          /\ pantry[p].last_updated_at = now
          /\ RLess(<<0, 1>>, pantry[p].daily_depletion_rate)

\* The (date, quantity) pairs of the order_placed rows of p, in row order.
OrderDates(p) ==
    LET evs == OrderEvents(events, p)
    IN  [i \in 1..Len(evs) |-> <<evs[i].event_date, evs[i].quantity>>]

\* C11: when the ledger holds orders of p1 on 2024-01-01, 2024-01-08 and
\* 2024-01-15, quantity 1 each, recorded through the order flow, a
\* predict_repurchase_date call made at 2024-01-20 finds
\* avg_days_between_purchases 7.0, std_dev_days 0.0 and detected category
\* routine, and returns predicted_date 2024-01-22, days_until 2 and
\* urgency 1.0.
C11_EndToEnd ==
    (/\ response.op = "predict_repurchase_date"
     /\ response.product_id = "p1"
     /\ response.at = 19 * TicksPerDay
     /\ OrderDates("p1") = << <<0, 1>>, <<7, 1>>, <<14, 1>> >>
     /\ \E i \in 1..Len(events) : events[i] = Event("p1", 1, "cart_add", 0, 0)
     /\ historyFile.orders =
           [i \in 1..3 |->
              [items |-> << [product_id |-> "p1", quantity |-> 1,
                             added_at |-> 7 * (i - 1) * TicksPerDay] >>,
               placed_at |-> 7 * (i - 1) * TicksPerDay]])
    => /\ stats["p1"].avg_days_between_purchases = <<7, 1>>
       /\ stats["p1"].std_dev_days_sq = <<0, 1>>
       /\ stats["p1"].detected_category = "routine"
       /\ response.prediction.predicted
       /\ response.prediction.base_day = <<21, 1>>
       /\ response.prediction.buffer_sq = <<0, 1>>
       /\ response.prediction.days_until = 2
       /\ response.prediction.urgency = <<1, 1>>

\* A predict_repurchase_date call has returned a prediction with a date.
Predicted ==
    response.op = "predict_repurchase_date" /\ response.prediction.predicted

\* C12 (as stated): every prediction with days_until = 0 has urgency 0.9,
\* every one with days_until = -1 has urgency 1.0, and every one with
\* days_until = 14 has urgency 0.0.
C12_UrgencyBoundary ==
    Predicted =>
       /\ response.prediction.days_until = 0
             => response.prediction.urgency = <<9, 10>>
       /\ response.prediction.days_until = -1
             => response.prediction.urgency = <<1, 1>>
       /\ response.prediction.days_until = 14
             => response.prediction.urgency = <<0, 1>>

\* C12 (amended): a prediction with days_until = 0 has urgency 0.9 unless
\* the category is routine, where it has 1.0; one with days_until = -1 has
\* urgency 1.0 and one with days_until = 14 has urgency 0.0, whatever the
\* category.
C12_UrgencyBoundaryByCategory ==
    Predicted =>
       /\ response.prediction.days_until = 0
             => response.prediction.urgency =
                   IF response.prediction.category = "routine"
                   THEN <<1, 1>> ELSE <<9, 10>>
       /\ response.prediction.days_until = -1
             => response.prediction.urgency = <<1, 1>>
       /\ response.prediction.days_until = 14
             => response.prediction.urgency = <<0, 1>>

C12_Witness ==
    /\ Predicted
    /\ response.prediction.days_until = 0
    /\ response.prediction.category = "regular"
    /\ response.prediction.urgency = <<9, 10>>

\* C13: a prediction made under the current configuration has its urgency
\* label cut at config.urgency_critical / urgency_high / urgency_medium,
\* and its safety buffer is std_dev_days times config.buffer_routine /
\* buffer_regular / buffer_treat, according to the category.
C13_ConfigDrivesPredictor ==
    (Predicted /\ "stats" \in DOMAIN response) =>
       LET prediction == response.prediction
           m == IF prediction.category = "routine" THEN config.buffer_routine
                ELSE IF prediction.category = "regular"
                     THEN config.buffer_regular
                ELSE config.buffer_treat
       IN  /\ prediction.urgency_label =
                 IF RLeq(config.urgency_critical, prediction.urgency)
                 THEN "critical"
                 ELSE IF RLeq(config.urgency_high, prediction.urgency)
                 THEN "high"
                 ELSE IF RLeq(config.urgency_medium, prediction.urgency)
                 THEN "medium"
                 ELSE "low"
           /\ prediction.buffer_sq =
                 RMul(response.stats.std_dev_days_sq, RMul(m, m))

\* C14: detect_category(avg_days, seasonality, n) returns uncategorized if
\* n < 3; else treat if seasonality > config.seasonality_threshold; else
\* uncategorized if avg_days is None; else routine if avg_days <=
\* config.routine_max_days; else regular if avg_days <=
\* config.regular_max_days; else treat if seasonality > 0.4 and regular
\* otherwise, for the configuration in force at the call.
C14_DecisionTable ==
    response.op = "detect_category" =>
       LET n == response.total_purchases
           avg == response.avg_days
           s_sq == response.seasonality_sq
           t == config.seasonality_threshold
           above == RLess(RMul(t, t), s_sq)
           expected ==
               IF n < 3 THEN "uncategorized"
               ELSE IF above THEN "treat"
               ELSE IF avg = None THEN "uncategorized"
               ELSE IF RLeq(avg, <<config.routine_max_days, 1>>) THEN "routine"
               ELSE IF RLeq(avg, <<config.regular_max_days, 1>>) THEN "regular"
               ELSE IF RLess(<<4, 25>>, s_sq) THEN "treat"
               ELSE "regular"
       IN  response.category = expected

C14_Witness ==
    /\ response.op = "detect_category"
    /\ config.routine_max_days = 15
    /\ response.avg_days = <<15, 1>>
    /\ response.total_purchases = 3
    /\ response.category = "routine"

\* C15: a product whose statistics row counts at least 3 purchases and has
\* an average interval between 1 and 14 days has detected category
\* routine, however many purchases it has.
C15_FrequentIsRoutine ==
    \A p \in DOMAIN stats :
       (/\ stats[p].total_purchases >= 3
        /\ stats[p].avg_days_between_purchases # None
        /\ RLeq(<<1, 1>>, stats[p].avg_days_between_purchases)
        /\ RLeq(stats[p].avg_days_between_purchases, <<14, 1>>))
       => stats[p].detected_category = "routine"

\* C16: a prediction made from a statistics row has predicted_date =
\* last_purchase_date + avg_days_between_purchases - std_dev_days * m, with
\* m = 1.0 for category routine, 0.5 for regular and 0.0 for any other
\* category; days_until is the whole number of days from the call to that
\* date, rounded down.
C16_PredictedDate ==
    (Predicted /\ "stats" \in DOMAIN response) =>
       LET prediction == response.prediction
           row == response.stats
           m == IF row.category_type = "routine" THEN <<1, 1>>
                ELSE IF row.category_type = "regular" THEN <<1, 2>>
                ELSE <<0, 1>>
           base == RAdd(<<row.last_purchase_date, 1>>,
                        row.avg_days_between_purchases)
           buffer_sq == RMul(row.std_dev_days_sq, RMul(m, m))
           \* base - now - days_until, which exceeds the buffer by less than 1
           slack == RSub(RSub(base, Rat(response.at, TicksPerDay)),
                         <<prediction.days_until, 1>>)
           less == RSub(slack, <<1, 1>>)
       IN  /\ prediction.base_day = base
           /\ prediction.buffer_sq = buffer_sq
           /\ RLeq(<<0, 1>>, slack) /\ RLeq(buffer_sq, RMul(slack, slack))
           /\ RLess(less, <<0, 1>>) \/ RLess(RMul(less, less), buffer_sq)

C16_Witness ==
    /\ Predicted
    /\ "stats" \in DOMAIN response
    /\ response.stats.category_type = "regular"
    /\ response.stats.std_dev_days_sq = <<4, 1>>
    /\ response.prediction.buffer_sq = <<1, 1>>
    /\ response.prediction.base_day = <<18, 1>>
    /\ response.prediction.days_until = 13

\* C17: predict_repurchase_date returns the no-prediction result (no
\* predicted date and no days_until, urgency 0, label low, confidence 0)
\* whenever the product has no statistics row, fewer than 2 purchases, no
\* known average interval or no last purchase date.
C17_NoPrediction ==
    response.op = "predict_repurchase_date" =>
       LET lacking ==
               IF "stats" \in DOMAIN response
               THEN \/ response.stats.total_purchases < 2
                    \/ response.stats.avg_days_between_purchases = None
                    \/ response.stats.last_purchase_date = NoDate
               ELSE response.product_id \notin DOMAIN stats
       IN  lacking =>
              /\ ~ response.prediction.predicted
              /\ DOMAIN response.prediction \cap
                    {"base_day", "buffer_sq", "days_until"} = {}
              /\ response.prediction.urgency = <<0, 1>>
              /\ response.prediction.urgency_label = "low"
              /\ \/ response.prediction.confidence.data = <<0, 1>>
                 \/ response.prediction.confidence.spread_sq = <<1, 1>>

C17_Witness ==
    /\ response.op = "predict_repurchase_date"
    /\ "stats" \in DOMAIN response
    /\ response.stats.total_purchases = 3
    /\ response.stats.avg_days_between_purchases = <<1, 1>>
    /\ response.stats.last_purchase_date = NoDate
    /\ ~ response.prediction.predicted

C19_PeakFollowsLedger ==
    \A p \in DOMAIN seasonal :
       LET count(m) ==
               Cardinality({i \in 1..Len(events) :
                               /\ events[i].product_id = p
                               /\ events[i].event_type = "order_placed"
                               /\ MonthOf(events[i].event_date) = m})
           total == Sum([m \in Months |-> count(m)])
           \* 12 * (count - mean) and 144 * 11 * variance
           excess(m) == 12 * count(m) - total
           spread == Sum([m \in Months |-> excess(m) * excess(m)])
       IN  \A m \in Months :
              seasonal[p][m].is_peak_period
                 <=> (excess(m) > 0 /\ 11 * excess(m) * excess(m) > spread)

\* C20: in a state where the migration marker is written, a
\* migrate_json_to_sqlite call and an ensure_initialized call, in this
\* process or a new one, add no orders and no events; and whenever a
\* statistics row exists, every item of every order of
\* kroger_order_history.json has its order_placed row in the ledger.
C20_MigratesOnce ==
    /\ marker =>
          /\ MigrateJsonToSqlite(World, cartFile, historyFile).events = events
          /\ MigrateJsonToSqlite(World, cartFile, historyFile).orders = orders
          /\ EnsureInitialized(World, cartFile, historyFile).events = events
          /\ EnsureInitialized(World, cartFile, historyFile).orders = orders
          /\ LET restarted == [World EXCEPT !.initialized = FALSE]
             IN  /\ EnsureInitialized(restarted, cartFile, historyFile).events
                       = events
                 /\ EnsureInitialized(restarted, cartFile, historyFile).orders
                       = orders
    /\ DOMAIN stats # {} =>
          \A i \in 1..Len(historyFile.orders) :
             \A j \in 1..Len(historyFile.orders[i].items) :
                \E k \in 1..Len(events) :
                   /\ events[k].event_type = "order_placed"
                   /\ events[k].product_id =
                         historyFile.orders[i].items[j].product_id
                   /\ events[k].quantity =
                         historyFile.orders[i].items[j].quantity
                   /\ events[k].event_date =
                         DateOf(historyFile.orders[i].placed_at)

C20_Witness ==
    /\ marker
    /\ response.op = "migrate_json_to_sqlite"
    /\ response.already_migrated
    /\ historyFile = LegacyHistory
    /\ Len(OrderEvents(events, "p1")) = 2
    /\ "p1" \in DOMAIN stats

\* C21: when a migration run has met a historical order that the database
\* rejects, the orders of the file that are well-formed are stored in the
\* ledger all the same, and the summary reports the error.
C21_BackfillSurvivesBadRecord ==
    (response.op = "migrate_json_to_sqlite" /\ ~ response.already_migrated) =>
       /\ \A i \in 1..Len(historyFile.orders) :
             ~ OrderRejected(historyFile.orders[i]) =>
                \A j \in 1..Len(historyFile.orders[i].items) :
                   \E k \in 1..Len(events) :
                      /\ events[k].event_type = "order_placed"
                      /\ events[k].product_id =
                            historyFile.orders[i].items[j].product_id
                      /\ events[k].event_date =
                            DateOf(historyFile.orders[i].placed_at)
       /\ MigrationFails(historyFile) => ~ response.success

\* C22: once no mark_order_placed call is in progress, the statistics row
\* of a product with order or depletion events is the row recomputed from
\* the whole ledger, however the calls of the clients were interleaved.
C22_RowMatchesLedger ==
    (\A c \in Clients : running[c].pc = "idle") =>
       \A p \in ProductIds :
          ConsumptionEvents(events, p) # <<>> =>
             /\ p \in DOMAIN stats
             /\ stats[p] = StatsRow(ConsumptionEvents(events, p), config)

\* C23: a set_product_category call with a category outside routine,
\* regular, treat and uncategorized raises a validation error, and every
\* row the products table had before the call is the same after it, in
\* category_type and in category_override.
C23_InvalidCategoryChangesNothing ==
    [][(/\ response'.op = "set_product_category"
        /\ response'.category \notin
              {"routine", "regular", "treat", "uncategorized"})
          => /\ "error" \in DOMAIN response'
             /\ \A q \in DOMAIN products :
                   /\ q \in DOMAIN products'
                   /\ products'[q] = products[q]]_vars

\* C24: get_holiday_date returns the calendar date of the holiday in the
\* given year. Easter is the Sunday after the ecclesiastical full moon (the
\* epact computation of the Gregorian calendar), 2024-03-31 and 2025-04-20;
\* thanksgiving is the Thursday among November 22..28, 2024-11-28;
\* christmas is December 25, halloween October 31, july_4th July 4; a name
\* outside the table gives None.
C24_HolidayDates ==
    response.op = "get_holiday_date" =>
       LET y == response.year
           \* golden number, century, and the corrections for dropped leap
           \* years and for the moon's orbit
           golden == (y % 19) + 1
           century == y \div 100 + 1
           solar == (3 * century) \div 4 - 12
           lunar == (8 * century + 5) \div 25 - 5
           sunday == (5 * y) \div 4 - solar - 10
           raw == (11 * golden + 20 + lunar - solar) % 30
           epact == IF (raw = 25 /\ golden > 11) \/ raw = 24
                    THEN raw + 1 ELSE raw
           moon == IF 44 - epact < 21 THEN 74 - epact ELSE 44 - epact
           \* Easter as a day of March, possibly beyond the 31st
           march_day == moon + 7 - ((sunday + moon) % 7)
           easter == IF march_day > 31
                     THEN [year |-> y, month |-> 4, day |-> march_day - 31]
                     ELSE [year |-> y, month |-> 3, day |-> march_day]
           \* Thanksgiving Day 2024
           known == [year |-> 2024, month |-> 11, day |-> 28]
       IN  CASE response.holiday = "easter" ->
                   /\ response.date = easter
                   /\ y = 2024 => response.date = [year |-> 2024, month |-> 3,
                                                    day |-> 31]
                   /\ y = 2025 => response.date = [year |-> 2025, month |-> 4,
                                                    day |-> 20]
             [] response.holiday = "thanksgiving" ->
                   /\ response.date.year = y /\ response.date.month = 11
                   /\ response.date.day \in 22..28
                   /\ Weekday(y, 11, response.date.day) = 3
                   /\ y = 2024 => response.date = known
                   /\ y = 2025 => response.date.day = 27
                   /\ y = 2023 => response.date.day = 23
             [] response.holiday = "christmas" ->
                   response.date = [year |-> y, month |-> 12, day |-> 25]
             [] response.holiday = "halloween" ->
                   response.date = [year |-> y, month |-> 10, day |-> 31]
             [] response.holiday = "july_4th" ->
                   response.date = [year |-> y, month |-> 7, day |-> 4]
             [] OTHER -> response.date = None

C24_Witness ==
    /\ response.op = "get_holiday_date"
    /\ response.holiday = "easter"
    /\ response.year = 2025
    /\ response.date = [year |-> 2025, month |-> 4, day |-> 20]

\* C25: get_predictions_for_period returns exactly the products that have at
\* least 2 purchases and a prediction, whose category is category_filter
\* when one is given, whose reported confidence is at least min_confidence,
\* whose days_until is at most days_ahead and, unless include_overdue, not
\* negative; each once, with its prediction, in order of falling urgency.
C25_PeriodPredictions ==
    response.op = "get_predictions_for_period" =>
        LET r == response
            n == Len(r.predictions)
            P(p) == PredictRepurchaseDate(p, GetProductStatistics(World, p), r.at)
            \* the hundredths k that round(confidence, 2) can be
            Reported(c) ==
                {k \in 0..100 :
                    /\ RLeq(Rat(2 * k - 1, 200), c.data)
                    /\ RLeq(RMul(RMul(c.data, c.data), c.spread_sq),
                            RMul(RSub(c.data, Rat(2 * k - 1, 200)),
                                 RSub(c.data, Rat(2 * k - 1, 200))))
                    /\ \/ RLeq(c.data, Rat(2 * k + 1, 200))
                       \/ RLeq(RMul(RSub(c.data, Rat(2 * k + 1, 200)),
                                    RSub(c.data, Rat(2 * k + 1, 200))),
                               RMul(RMul(c.data, c.data), c.spread_sq))}
            Confident(c) ==
                \E k \in Reported(c) :
                    /\ RLeq(r.min_confidence, Rat(k, 100))
                    /\ k % 2 = 1 => Cardinality(Reported(c)) = 1
            Qualifies(p) ==
                /\ p \in DOMAIN stats /\ p \in DOMAIN products
                /\ stats[p].total_purchases >= 2
                /\ P(p).predicted
                /\ r.category_filter # "" =>
                      products[p].category_type = r.category_filter
                /\ Confident(P(p).confidence)
                /\ P(p).days_until <= r.days_ahead
                /\ ~ r.include_overdue => P(p).days_until >= 0
        IN  /\ {r.predictions[i].product_id : i \in 1..n}
                  = {p \in ProductIds : Qualifies(p)}
            /\ \A i, j \in 1..n :
                  i < j => /\ r.predictions[i].product_id
                                # r.predictions[j].product_id
                           /\ ~ RLess(r.predictions[i].urgency,
                                      r.predictions[j].urgency)
            /\ \A i \in 1..n :
                  r.predictions[i] = P(r.predictions[i].product_id)

\* A query with a category filter and a horizon of one day that returns two
\* predictions, the more urgent first.
C25_Witness ==
    /\ response.op = "get_predictions_for_period"
    /\ response.category_filter = "treat"
    /\ response.days_ahead = 1
    /\ Len(response.predictions) = 2
    /\ RLess(response.predictions[2].urgency, response.predictions[1].urgency)

\* C26: detect_holiday_association returns the first holiday of the table
\* (thanksgiving, christmas, halloween, easter, july_4th) one of whose
\* keywords is a substring of the lower-cased description; failing that,
\* with at least 2 order_placed events, the first holiday of the table whose
\* months hold at least 80% of those events; failing that, None.
C26_HolidayAssociation ==
    response.op = "detect_holiday_association" =>
        LET r == response
            table == <<"thanksgiving", "christmas", "halloween", "easter",
                       "july_4th">>
            Row(h) == CHOOSE i \in 1..Len(HolidayPatterns) :
                          HolidayPatterns[i].holiday = h
            Within(kw, d) ==
                \E a \in 0..Len(d) :
                    /\ a + Len(kw) <= Len(d)
                    /\ \A k \in 1..Len(kw) : Lower(d[a + k]) = kw[k]
            ByKeyword(h) ==
                \E kw \in HolidayPatterns[Row(h)].keywords :
                    Within(kw, r.description)
            ByMonths(h) ==
                /\ Len(r.dates) >= 2
                /\ 5 * Cardinality({k \in 1..Len(r.dates) :
                                      MonthOf(r.dates[k])
                                          \in HolidayPatterns[Row(h)].months})
                      >= 4 * Len(r.dates)
            First(Q(_)) == table[CHOOSE i \in 1..5 :
                                    Q(table[i]) /\ \A j \in 1..(i - 1) : ~ Q(table[j])]
        IN  /\ [i \in 1..5 |-> HolidayPatterns[i].holiday] = table
            /\ IF \E i \in 1..5 : ByKeyword(table[i])
               THEN r.holiday = First(ByKeyword)
               ELSE IF \E i \in 1..5 : ByMonths(table[i])
               THEN r.holiday = First(ByMonths)
               ELSE r.holiday = None
            /\ r.description = <<"H", "a", "m", "b", "u", "r", "g", "e", "r">>
                  => r.holiday = "christmas"
            /\ r.description = <<"P", "u", "m", "p", "k", "i", "n", " ", "P", "I", "E">>
                  => r.holiday = "thanksgiving"
            /\ r.description = <<>> /\ r.dates = <<310, 310, 310, 310, 340>>
                  => r.holiday = "thanksgiving"
            /\ r.description = <<>> /\ r.dates = <<20, 20, 310, 310, 310>>
                  => r.holiday = None
            /\ r.description = <<>> /\ r.dates = <<310, 340, 340>>
                  => r.holiday = "christmas"

\* 'Hamburger' with four of five orders in November: the keyword 'ham' of
\* christmas decides, before the keyword 'hamburger' of july_4th and before
\* the months of thanksgiving.
C26_Witness ==
    /\ response.op = "detect_holiday_association"
    /\ response.description = <<"H", "a", "m", "b", "u", "r", "g", "e", "r">>
    /\ response.dates = <<20, 310, 310, 310, 310>>
    /\ response.holiday = "christmas"

\* C27: every order placed through mark_order_placed has exactly one
\* order_placed event per cart item: purchase_events never holds more
\* order_placed events of a product than the order history holds items of it.
C27_OneEventPerOrderedItem ==
    \A p \in ProductIds :
        Cardinality({k \in 1..Len(events) :
                       /\ events[k].product_id = p
                       /\ events[k].event_type = "order_placed"})
            <= Sum([i \in 1..Len(historyFile.orders) |->
                      Cardinality({k \in 1..Len(historyFile.orders[i].items) :
                                     historyFile.orders[i].items[k].product_id = p})])

\* C28: among the predictions of one period query, for one category, an
\* item due sooner never has a lower urgency than an item due later.
C28_UrgencyFallsWithDaysUntil ==
    response.op = "get_predictions_for_period" =>
        \A i, j \in 1..Len(response.predictions) :
            LET sooner == response.predictions[i]
                later == response.predictions[j]
            IN  sooner.category = later.category
                    /\ sooner.days_until < later.days_until
                => ~ RLess(sooner.urgency, later.urgency)

\* C29: when apply_daily_depletion has just rewritten the row of an item
\* restocked earlier, for which no pantry_depleted event exists, a manual
\* update_pantry_level of that item to 5% or less records a depletion.
C29_DepletionRecordedAfterDecay ==
    [][\A p \in ProductIds :
          /\ response.op = "apply_daily_depletion"
          /\ p \in DOMAIN pantry
          /\ pantry[p].last_restocked_at >= 0
          /\ pantry[p].last_restocked_at < pantry[p].last_updated_at
          /\ pantry[p].last_updated_at = now
          /\ \A k \in 1..Len(events) :
                ~ (events[k].product_id = p
                     /\ events[k].event_type = "pantry_depleted")
          /\ response'.op = "update_pantry_level"
          /\ response'.product_id = p
          /\ response'.success
          /\ response'.level_percent <= 5
          => response'.depletion_recorded]_vars

\* C30: get_low_inventory_items() without a threshold returns exactly the
\* items that get_pantry_status reports as low or out, and an item is
\* reported out exactly when its reported level_percent is 0.
C30_ReadPathsAgree ==
    response.op = "get_low_inventory_items" /\ response.threshold = <<>> =>
        LET status == GetPantryStatus(World, TRUE)
        IN  /\ DOMAIN response.items
                  = {p \in DOMAIN status : status[p].status \in {"low", "out"}}
            /\ \A p \in DOMAIN status :
                  status[p].status = "out" <=> status[p].level_percent = 0

====
